---- MODULE Spec2Model ----
(***************************************************************************)
(* Model of the camera viewer core of high-speed-camera-testing:          *)
(*   - ViewerSession (src/ui/session.py): the single-viewer session gate, *)
(*     called from several threads, every method under one RLock, and    *)
(*     the StreamState that consults it;                                  *)
(*   - CameraDevice (src/camera/device.py): open / close / pull /         *)
(*     reconnect of one MindVision camera and the class-level registry    *)
(*     of active device indices;                                         *)
(*   - CaptureSession (src/camera/capture.py) and SessionLifecycle        *)
(*     (src/ui/lifecycle.py): the capture worker and the viewer sessions; *)
(*   - HighSpeedRecorder (src/camera/highspeed_recorder.py): the frame    *)
(*     buffer, the slow-motion clips and the measured frame rate;         *)
(*   - VideoRecorder (src/camera/recorder.py): add_frame under            *)
(*     concurrent writers;                                                *)
(*   - VideoFrame (src/camera/video_frame.py): the frame validation.      *)
(* Each part has its own specification over the same variables.           *)
(***************************************************************************)
EXTENDS Integers, Sequences, FiniteSets, TLC

\* ------------------------------------------------------------------
\* Bounds of the model
\* ------------------------------------------------------------------
NumThreads == 2
NumSessionIds == 3
NumDevices == 2
MaxAdds == 3
MaxTime == 2

Threads == 1..NumThreads
SessionIds == 1..NumSessionIds

\* Python's Optional: None is the empty tuple, a present value x is <<x>>
None == <<>>
Some(x) == <<x>>

\* No thread (the lock is free)
NoThread == 0

\* Values returned to a caller
RetNone == [ret |-> "None", session_hash |-> 0, value |-> 0]
RetTrue == [ret |-> "True", session_hash |-> 0, value |-> 0]
RetFalse == [ret |-> "False", session_hash |-> 0, value |-> 0]
RetBool(b) == IF b THEN RetTrue ELSE RetFalse
RetInfo(info) ==
    [ret |-> "SessionInfo", session_hash |-> info.session_hash, value |-> 0]
\* an int returned by a StreamState counter; a ValueError raised to the caller
RetInt(n) == [ret |-> "int", session_hash |-> 0, value |-> n]
RetValueError == [ret |-> "ValueError", session_hash |-> 0, value |-> 0]

VARIABLES
    \* ---- ViewerSession ----
    active_session,   \* ViewerSession._active_session: None or a SessionInfo
    lock_owner,       \* owner of ViewerSession._lock (None when free)
    pc,               \* per thread: position inside its current gate call
    call,             \* per thread: the call it is making, [op, id]
    result,           \* per thread: value returned by its last finished call
    granted,          \* ids whose try_start_session returned True in this round
    called,           \* ids passed to try_start_session in this round
    roundOK,          \* the round is a pure race of try_start_session calls
    lastRejected,     \* id most recently returned False (0: none yet)
    \* ---- CameraDevice ----
    active_devices,   \* CameraDevice._active_devices (class-level registry)
    dev,              \* per CameraDevice object: its fields
    run,              \* per object: timeouts in a row since the last frame
    lastOp,           \* the last operation: what it returned and which
                      \* native calls it made, in order (seq alternates, so
                      \* that repeating an operation is a step)
    \* ---- CaptureSession and the threads that pull ----
    stop_event,       \* CaptureSession._stop_event is set
    running,          \* CaptureSession._running
    thread,           \* CaptureSession._thread: the worker last started (0: None)
    wk,               \* per worker thread: position in _capture_loop
    ctl,              \* the session layer's thread: where it is in its calls
    poll,             \* per get_frame caller: position in get_frame
    frame_lock,       \* owner of CameraDevice._frame_lock (0 when free)
    reconnect_in_progress,  \* CameraDevice._reconnect_in_progress
    lifecycle_camera, \* SessionLifecycle.camera is set (not None)
    stale_calls,      \* native calls that the latest step of a pull made on
                      \* a released handle or buffer, each with what had
                      \* released it
    lifeOp,           \* the last SessionLifecycle call: its arguments, what
                      \* it returned, and the camera calls and releases it
                      \* made, in order
    \* ---- HighSpeedRecorder ----
    now,              \* time.time(), in ticks
    target_fps,       \* HighSpeedRecorder.target_fps
    buffer,           \* HighSpeedRecorder._buffer: entries [ts, frame]
    buffer_maxlen,    \* maxlen of the deque in _buffer
    latest_frame,     \* HighSpeedRecorder._latest_frame: None or a frame
    is_recording,     \* HighSpeedRecorder._is_recording
    recording_frames, \* HighSpeedRecorder._recording_frames
    added,            \* frames handed to add_frame so far (names the frames)
    recOp,            \* the last recorder operation: its arguments, what it
                      \* returned and what it passed to the video writer
    \* ---- VideoFrame ----
    vframe,           \* the last VideoFrame(...) call: arguments and outcome
    \* ---- StreamState ----
    is_streaming,     \* StreamState._is_streaming
    frame_count,      \* StreamState._frame_count
    error_count,      \* StreamState._error_count
    \* ---- VideoRecorder ----
    vr_buffer,        \* VideoRecorder._buffer: entries [ts, frame]
    vr_lock,          \* owner of VideoRecorder._lock (NoThread when free)
    vr_pc,            \* per thread: position inside add_frame
    vr_call,          \* per thread: the frame it adds and its current_time
    vr_done,          \* the entries of the add_frame calls that returned
    vr_added,         \* add_frame calls made so far (names the frames)
    \* ---- HighSpeedRecorder: frame-rate measurement ----
    fps_window,       \* HighSpeedRecorder._fps_window: timestamps
    last_fps_calc,    \* HighSpeedRecorder._last_fps_calc
    cached_fps,       \* HighSpeedRecorder._cached_fps, as a fraction
    fpsOp             \* the last get_actual_fps call: the samples in the
                      \* window when it ran and what it returned

gateVars == <<active_session, lock_owner, pc, call, result, granted, called,
              roundOK, lastRejected>>

devVars == <<active_devices, dev, run, lastOp>>

capVars == <<stop_event, running, thread, wk, ctl, poll, frame_lock,
             reconnect_in_progress, lifecycle_camera, stale_calls>>

recVars == <<now, target_fps, buffer, buffer_maxlen, latest_frame,
             is_recording, recording_frames, added, recOp>>

streamVars == <<is_streaming, frame_count, error_count>>

\* What only the StreamState operations and the operations of the
\* measurement window and of VideoRecorder touch
vrecVars == <<vr_buffer, vr_lock, vr_pc, vr_call, vr_done, vr_added>>

fpsVars == <<fps_window, last_fps_calc, cached_fps, fpsOp>>

extVars == <<streamVars, vrecVars, fpsVars>>

\* The recorder, the VideoFrame constructor and the record of the last
\* SessionLifecycle call: what the gate, device and capture operations
\* never touch
libVars == <<recVars, vframe, lifeOp, extVars>>

vars == <<gateVars, devVars, capVars, libVars>>

\* ------------------------------------------------------------------
\* ViewerSession
\* ------------------------------------------------------------------

\* SessionInfo(session_hash, start_time, is_active); start_time is only
\* reported back, no operation branches on it, so it is left out.
SessionInfo(id) == [session_hash |-> id, is_active |-> TRUE]

NoCall == [op |-> "none", id |-> 0]

GateVarsInit ==
    /\ active_session = None
    /\ lock_owner = NoThread
    /\ pc = [t \in Threads |-> "idle"]
    /\ call = [t \in Threads |-> NoCall]
    /\ result = [t \in Threads |-> RetNone]
    /\ granted = {}
    /\ called = {}
    /\ roundOK = TRUE
    /\ lastRejected = 0

\* "with self._lock": a thread enters only when no other thread holds it
LockFreeNoLock(t) == TRUE
LockFree(t) == lock_owner = NoThread

\* self._active_session.session_hash == session_hash
IsSameSessionAlways(id) == TRUE
IsSameSession(id) == active_session[1].session_hash = id

\* self._active_session is not None and its session_hash == session_hash
EndMatchesAny(id) == active_session # None
EndMatches(id) == active_session # None /\ IsSameSession(id)

\* A thread calls try_start_session(id); it now waits for the lock.
TryStartCall(t, id) ==
    /\ pc[t] = "idle"
    /\ UNCHANGED <<devVars, capVars, libVars>>
    /\ pc' = [pc EXCEPT ![t] = "wait"]
    /\ call' = [call EXCEPT ![t] = [op |-> "try_start_session", id |-> id]]
    /\ result' = [result EXCEPT ![t] = RetNone]
    /\ roundOK' = (roundOK /\ id \notin called)
    /\ called' = IF roundOK' THEN called \cup {id} ELSE {}
    /\ granted' = IF roundOK' THEN granted ELSE {}
    /\ UNCHANGED <<active_session, lock_owner, lastRejected>>

\* with self._lock:
TryStartAcquire(t) ==
    /\ pc[t] = "wait"
    /\ UNCHANGED <<devVars, capVars, libVars>>
    /\ LockFree(t)
    /\ lock_owner' = t
    /\ pc' = [pc EXCEPT ![t] = "check"]
    /\ UNCHANGED <<active_session, call, result, granted, called, roundOK,
                   lastRejected>>

\* if self._active_session is not None: return (hash == session_hash)
\* otherwise fall through to the assignment.
TryStartCheck(t) ==
    /\ pc[t] = "check"
    /\ UNCHANGED <<devVars, capVars, libVars>>
    /\ IF active_session # None
         THEN LET r == IsSameSession(call[t].id) IN
              /\ result' = [result EXCEPT ![t] = RetBool(r)]
              /\ pc' = [pc EXCEPT ![t] = "done"]
              /\ lock_owner' = IF lock_owner = t THEN NoThread ELSE lock_owner
              /\ granted' = IF r /\ roundOK THEN granted \cup {call[t].id}
                                           ELSE granted
              /\ lastRejected' = IF r THEN lastRejected ELSE call[t].id
         ELSE /\ pc' = [pc EXCEPT ![t] = "set"]
              /\ UNCHANGED <<result, lock_owner, granted, lastRejected>>
    /\ UNCHANGED <<active_session, call, called, roundOK>>

\* self._active_session = SessionInfo(...); return True
TryStartSet(t) ==
    /\ pc[t] = "set"
    /\ UNCHANGED <<devVars, capVars, libVars>>
    /\ active_session' = Some(SessionInfo(call[t].id))
    /\ result' = [result EXCEPT ![t] = RetTrue]
    /\ pc' = [pc EXCEPT ![t] = "done"]
    /\ lock_owner' = IF lock_owner = t THEN NoThread ELSE lock_owner
    /\ granted' = IF roundOK THEN granted \cup {call[t].id} ELSE granted
    /\ UNCHANGED <<call, called, roundOK, lastRejected>>

\* end_session(id): the whole body runs under the lock.
EndSession(t, id) ==
    /\ pc[t] = "idle"
    /\ UNCHANGED <<devVars, capVars, libVars>>
    /\ LockFree(t)
    /\ active_session' =
         IF EndMatches(id) THEN None ELSE active_session
    /\ call' = [call EXCEPT ![t] = [op |-> "end_session", id |-> id]]
    /\ result' = [result EXCEPT ![t] = RetNone]
    /\ pc' = [pc EXCEPT ![t] = "done"]
    /\ roundOK' = FALSE
    /\ granted' = {}
    /\ called' = {}
    /\ UNCHANGED <<lock_owner, lastRejected>>

\* get_active_session(): a snapshot copy of the active SessionInfo, or None.
GetActiveSession(t) ==
    /\ pc[t] = "idle"
    /\ UNCHANGED <<devVars, capVars, libVars>>
    /\ LockFree(t)
    /\ call' = [call EXCEPT ![t] = [op |-> "get_active_session", id |-> 0]]
    /\ result' = [result EXCEPT ![t] =
                    IF active_session = None THEN RetNone
                    ELSE RetInfo(active_session[1])]
    /\ pc' = [pc EXCEPT ![t] = "done"]
    /\ UNCHANGED <<active_session, lock_owner, granted, called, roundOK,
                   lastRejected>>

\* The caller consumes the returned value.  When that leaves every thread
\* idle and the gate empty, a new round of calls on an empty gate begins.
Return(t) ==
    /\ pc[t] = "done"
    /\ UNCHANGED <<devVars, capVars, libVars>>
    /\ pc' = [pc EXCEPT ![t] = "idle"]
    /\ IF active_session = None /\ \A u \in Threads \ {t} : pc[u] = "idle"
         THEN /\ granted' = {}
              /\ called' = {}
              /\ roundOK' = TRUE
         ELSE UNCHANGED <<granted, called, roundOK>>
    /\ call' = [call EXCEPT ![t] = NoCall]
    /\ result' = [result EXCEPT ![t] = RetNone]
    /\ UNCHANGED <<active_session, lock_owner, lastRejected>>

GateNext ==
    \/ \E t \in Threads, id \in SessionIds : TryStartCall(t, id)
    \/ \E t \in Threads : TryStartAcquire(t)
    \/ \E t \in Threads : TryStartCheck(t)
    \/ \E t \in Threads : TryStartSet(t)
    \/ \E t \in Threads, id \in SessionIds : EndSession(t, id)
    \/ \E t \in Threads : GetActiveSession(t)
    \/ \E t \in Threads : Return(t)

\* ------------------------------------------------------------------
\* StreamState
\* ------------------------------------------------------------------

\* The counters are capped so that the state space is finite
MaxCount == 2

StreamVarsInit ==
    /\ is_streaming = FALSE
    /\ frame_count = 0
    /\ error_count = 0

\* ViewerSession.is_session_active(session_hash), read under the gate's lock
IsSessionActiveAlways(id) == TRUE
IsSessionActive(id) ==
    /\ active_session # None
    /\ IsSameSession(id)
    /\ active_session[1].is_active

\* start_streaming(id), up to the flag: is_session_active(id) runs under
\* the gate's lock; a False raises ValueError, a True leaves the thread in
\* front of "with self._lock" of the StreamState.
StartStreamingCheck(t, id) ==
    /\ pc[t] = "idle"
    /\ LockFree(t)
    /\ UNCHANGED <<devVars, capVars, libVars>>
    /\ call' = [call EXCEPT ![t] = [op |-> "start_streaming", id |-> id]]
    /\ IF IsSessionActive(id)
         THEN /\ pc' = [pc EXCEPT ![t] = "stream_set"]
              /\ result' = [result EXCEPT ![t] = RetNone]
         ELSE /\ pc' = [pc EXCEPT ![t] = "done"]
              /\ result' = [result EXCEPT ![t] = RetValueError]
    /\ UNCHANGED <<active_session, lock_owner, granted, called, roundOK,
                   lastRejected>>

\* with self._lock: self._is_streaming = True
StartStreamingSet(t) ==
    /\ pc[t] = "stream_set"
    /\ is_streaming' = TRUE
    /\ pc' = [pc EXCEPT ![t] = "done"]
    /\ result' = [result EXCEPT ![t] = RetNone]
    /\ UNCHANGED <<active_session, lock_owner, call, granted, called, roundOK,
                   lastRejected>>
    /\ UNCHANGED <<devVars, capVars, recVars, vframe, lifeOp, vrecVars,
                   fpsVars>>
    /\ UNCHANGED <<frame_count, error_count>>

\* What a StreamState call that runs whole under the StreamState's lock
\* leaves alone, and how it returns
StreamCall(t, op, id, ret) ==
    /\ pc[t] = "idle"
    /\ call' = [call EXCEPT ![t] = [op |-> op, id |-> id]]
    /\ result' = [result EXCEPT ![t] = ret]
    /\ pc' = [pc EXCEPT ![t] = "done"]
    /\ UNCHANGED <<active_session, lock_owner, granted, called, roundOK,
                   lastRejected>>
    /\ UNCHANGED <<devVars, capVars, recVars, vframe, lifeOp, vrecVars,
                   fpsVars>>

\* stop_streaming(id): the id is not looked at
StopStreaming(t, id) ==
    /\ StreamCall(t, "stop_streaming", id, RetNone)
    /\ is_streaming' = FALSE
    /\ error_count' = 0
    /\ UNCHANGED frame_count

\* is_streaming()
IsStreaming(t) ==
    /\ StreamCall(t, "is_streaming", 0, RetBool(is_streaming))
    /\ UNCHANGED streamVars

\* increment_frame_count()
IncrementFrameCount(t) ==
    /\ frame_count < MaxCount
    /\ StreamCall(t, "increment_frame_count", 0, RetInt(frame_count + 1))
    /\ frame_count' = frame_count + 1
    /\ UNCHANGED <<is_streaming, error_count>>

\* increment_error_count()
IncrementErrorCount(t) ==
    /\ error_count < MaxCount
    /\ StreamCall(t, "increment_error_count", 0, RetInt(error_count + 1))
    /\ error_count' = error_count + 1
    /\ UNCHANGED <<is_streaming, frame_count>>

\* reset_error_count()
ResetErrorCount(t) ==
    /\ StreamCall(t, "reset_error_count", 0, RetNone)
    /\ error_count' = 0
    /\ UNCHANGED <<is_streaming, frame_count>>

\* The gate and the StreamState built on it, under concurrent callers
StreamStateNext ==
    \/ GateNext
    \/ \E t \in Threads, id \in SessionIds : StartStreamingCheck(t, id)
    \/ \E t \in Threads : StartStreamingSet(t)
    \/ \E t \in Threads, id \in SessionIds : StopStreaming(t, id)
    \/ \E t \in Threads : IsStreaming(t)
    \/ \E t \in Threads : IncrementFrameCount(t)
    \/ \E t \in Threads : IncrementErrorCount(t)
    \/ \E t \in Threads : ResetErrorCount(t)

\* ------------------------------------------------------------------
\* CameraDevice
\* ------------------------------------------------------------------

Devices == 1..NumDevices

\* camera_info.device_index of each CameraDevice object: objects come in
\* pairs created for the same enumerated camera.
DeviceIndex(d) == (d - 1) \div 2

\* Tunable thresholds set by CameraDevice.__init__
ConsecutiveTimeoutLimit == 10
ReconnectBackoffSeconds == 2
MinReconnectInterval == 10

\* Time is counted in ticks of 500 ms, the wait that every pull passes to
\* CameraGetImageBuffer: a pull that times out has taken one tick.
TicksPerSecond == 2
PullTimeoutTicks == 1
ReconnectBackoffTicks == ReconnectBackoffSeconds * TicksPerSecond
MinReconnectTicks == MinReconnectInterval * TicksPerSecond

\* A native handle or aligned buffer held in a field is None, or a value
\* that is still live in the SDK, or a value that was already passed to the
\* SDK's release function (CameraUnInit / CameraAlignFree).
Live == <<"live">>
Released == <<"released">>

\* Where _initialize can fail: nowhere, CameraEnumerateDevice raising, the
\* index missing from the enumeration, CameraInit raising, one of the
\* configuration calls raising, CameraAlignMalloc raising, CameraPlay raising.
InitFailures ==
    {"none", "enumerate", "not_found", "init", "config", "malloc", "play"}

\* Status codes of the SDK
CAMERA_STATUS_SUCCESS == 0
CAMERA_STATUS_FAILED == -1
CAMERA_STATUS_TIME_OUT == -12
CAMERA_STATUS_NO_DEVICE_FOUND == -16

\* Result of one CameraGetImageBuffer/ImageProcess/Release sequence
PullOutcomes == {"frame", "timeout", "fatal", "no_device"}

\* e.error_code of the mvsdk.CameraException the sequence raises
ErrorCode(out) ==
    CASE out = "frame" -> CAMERA_STATUS_SUCCESS
      [] out = "timeout" -> CAMERA_STATUS_TIME_OUT
      [] out = "fatal" -> CAMERA_STATUS_FAILED
      [] out = "no_device" -> CAMERA_STATUS_NO_DEVICE_FOUND

NewDevice ==
    [initialized |-> FALSE,
     handle |-> None,
     frame_buffer |-> None,
     timeout_count |-> 0,
     \* ticks since _last_reconnect_attempt, saturated at
     \* MinReconnectTicks (the field starts at 0.0, the epoch)
     since_reconnect |-> MinReconnectTicks,
     \* not a field of the object: whether __exit__ has returned since the
     \* last __enter__ that got the registry ("in_reconnect": it ran while
     \* a capture worker was inside _attempt_reconnect)
     exited |-> "no"]

NoOp == [op |-> "none", d |-> 0, outcome |-> "none", reconnect |-> "none",
         calls |-> <<>>, warnings |-> 0, seq |-> 0, native |-> 0, code |-> 0]

DevVarsInit ==
    /\ active_devices = {}
    /\ dev = [d \in Devices |-> NewDevice]
    /\ run = [d \in Devices |-> 0]
    /\ lastOp = NoOp

\* Native calls are logged by name; a call that raised carries ":raised"
\* (":timeout" for CAMERA_STATUS_TIME_OUT).
\* The release call as the SDK sees it: on a live value, or on a value it
\* was already given.
UnInitCall(h) == IF h = Live THEN "CameraUnInit" ELSE "CameraUnInit:again"
FreeCall(b) == IF b = Live THEN "CameraAlignFree" ELSE "CameraAlignFree:again"

ReleaseCalls == {"CameraUnInit", "CameraUnInit:again",
                 "CameraAlignFree", "CameraAlignFree:again"}

ConfigCalls == <<"CameraGetCapability", "CameraSetIspOutFormat",
                 "CameraSetTriggerMode", "CameraSetFrameSpeed",
                 "CameraSetAeState", "CameraSetExposureTime">>

\* except mvsdk.CameraException in _initialize: CameraUnInit(self._handle) if
\* the field is not None, then CameraAlignFree(self._frame_buffer) if the
\* field is not None; the fields keep their values.
InitCleanupCalls(h, b) ==
    (IF h # None THEN <<UnInitCall(h)>> ELSE <<>>)
    \o (IF b # None THEN <<FreeCall(b)>> ELSE <<>>)

AfterRelease(x) == IF x = None THEN None ELSE Released

\* _initialize on the object with fields r, failing at `fail`.
\* Gives the new fields, the native calls made and whether it returned
\* normally (otherwise it raised CameraException).
Initialize(r, fail) ==
    CASE fail = "none" ->
           [rec |-> [r EXCEPT !.handle = Live, !.frame_buffer = Live,
                              !.initialized = TRUE],
            calls |-> <<"CameraEnumerateDevice", "CameraInit">> \o ConfigCalls
                      \o <<"CameraAlignMalloc", "CameraPlay">>,
            ok |-> TRUE]
      [] fail = "not_found" ->
           \* raise CameraException(...): not an mvsdk.CameraException, so the
           \* except clause does not run
           [rec |-> r, calls |-> <<"CameraEnumerateDevice">>, ok |-> FALSE]
      [] fail = "enumerate" ->
           [rec |-> [r EXCEPT !.handle = AfterRelease(r.handle),
                              !.frame_buffer = AfterRelease(r.frame_buffer)],
            calls |-> <<"CameraEnumerateDevice:raised">>
                      \o InitCleanupCalls(r.handle, r.frame_buffer),
            ok |-> FALSE]
      [] fail = "init" ->
           [rec |-> [r EXCEPT !.handle = AfterRelease(r.handle),
                              !.frame_buffer = AfterRelease(r.frame_buffer)],
            calls |-> <<"CameraEnumerateDevice", "CameraInit:raised">>
                      \o InitCleanupCalls(r.handle, r.frame_buffer),
            ok |-> FALSE]
      [] fail = "config" ->
           [rec |-> [r EXCEPT !.handle = Released,
                              !.frame_buffer = AfterRelease(r.frame_buffer)],
            calls |-> <<"CameraEnumerateDevice", "CameraInit",
                        "CameraGetCapability:raised">>
                      \o InitCleanupCalls(Live, r.frame_buffer),
            ok |-> FALSE]
      [] fail = "malloc" ->
           [rec |-> [r EXCEPT !.handle = Released,
                              !.frame_buffer = AfterRelease(r.frame_buffer)],
            calls |-> <<"CameraEnumerateDevice", "CameraInit">> \o ConfigCalls
                      \o <<"CameraAlignMalloc:raised">>
                      \o InitCleanupCalls(Live, r.frame_buffer),
            ok |-> FALSE]
      [] fail = "play" ->
           [rec |-> [r EXCEPT !.handle = Released, !.frame_buffer = Released],
            calls |-> <<"CameraEnumerateDevice", "CameraInit">> \o ConfigCalls
                      \o <<"CameraAlignMalloc", "CameraPlay:raised">>
                      \o InitCleanupCalls(Live, Live),
            ok |-> FALSE]

\* The registry after __enter__ found the index already registered and
\* raised CameraAccessDenied (the raise is outside the try block).
RegistryAfterDeniedDiscard(idx) == active_devices \ {idx}
RegistryAfterDenied(idx) == active_devices

\* __enter__: the objects, the registry and the call log entry it leaves
EnterResult(d, fail) ==
    LET idx == DeviceIndex(d)
        i == Initialize(dev[d], fail)
    IN
    IF idx \in active_devices
      THEN [devs |-> dev,
            active |-> RegistryAfterDenied(idx),
            op |-> [op |-> "enter", d |-> d,
                    outcome |-> "CameraAccessDenied",
                    reconnect |-> "none", calls |-> <<>>,
                    warnings |-> 0, seq |-> 1 - lastOp.seq,
                    native |-> 0, code |-> 0]]
      ELSE [devs |-> [dev EXCEPT ![d] = [i.rec EXCEPT !.exited = "no"]],
            active |-> IF i.ok THEN active_devices \cup {idx}
                               ELSE active_devices \ {idx},
            op |-> [op |-> "enter", d |-> d,
                    outcome |-> IF i.ok THEN "ok" ELSE "CameraException",
                    reconnect |-> "none", calls |-> i.calls,
                    warnings |-> 0, seq |-> 1 - lastOp.seq,
                    native |-> 0, code |-> 0]]

\* __enter__ with no capture session or get_frame caller around
Enter(d, fail) ==
    LET e == EnterResult(d, fail) IN
    /\ UNCHANGED <<gateVars, libVars, capVars>>
    /\ dev' = e.devs
    /\ active_devices' = e.active
    /\ lastOp' = e.op
    /\ UNCHANGED run

\* try: release(x) / except Exception: print / finally: field = None
FieldAfterExitKeptOnFailure(x, fails) == IF fails THEN AfterRelease(x) ELSE None
FieldAfterExit(x, fails) == None

\* __exit__: the objects, the registry and the call log entry it leaves;
\* freeFails / unInitFails: the native release call raises
ExitResult(d, freeFails, unInitFails) ==
    LET r == dev[d] IN
    [devs |-> [dev EXCEPT ![d] =
                 [r EXCEPT !.initialized = FALSE,
                           !.frame_buffer =
                               FieldAfterExit(r.frame_buffer, freeFails),
                           !.handle = FieldAfterExit(r.handle, unInitFails),
                           !.exited = "yes"]],
     active |-> active_devices \ {DeviceIndex(d)},
     op |-> [op |-> "exit", d |-> d, outcome |-> "ok",
             reconnect |-> "none",
             calls |-> (IF r.frame_buffer # None
                          THEN <<FreeCall(r.frame_buffer)>> ELSE <<>>)
                       \o (IF r.handle # None
                             THEN <<UnInitCall(r.handle)>> ELSE <<>>),
             \* "Warning: Failed to ..." printed for each release call
             \* that raised
             warnings |-> (IF r.frame_buffer # None /\ freeFails
                             THEN 1 ELSE 0)
                          + (IF r.handle # None /\ unInitFails
                               THEN 1 ELSE 0),
             seq |-> 1 - lastOp.seq, native |-> 0, code |-> 0]]

\* __exit__ with no capture session or get_frame caller around
Exit(d, freeFails, unInitFails) ==
    LET x == ExitResult(d, freeFails, unInitFails) IN
    /\ UNCHANGED <<gateVars, libVars, capVars>>
    /\ dev' = x.devs
    /\ active_devices' = x.active
    /\ lastOp' = x.op
    /\ UNCHANGED run

\* Wall-clock time advancing by k ticks, as every object sees it
Elapse(f, k) ==
    [d \in Devices |->
       [f[d] EXCEPT !.since_reconnect =
          IF @ + k > MinReconnectTicks THEN MinReconnectTicks ELSE @ + k]]

\* _attempt_reconnect on the object with fields r: stamp the attempt,
\* free the buffer and un-init the handle if present, mark not initialized,
\* sleep the backoff, _initialize again.
AttemptReconnect(r, fail) ==
    LET cleaned == [r EXCEPT !.since_reconnect = 0,
                             !.frame_buffer = None,
                             !.handle = None,
                             !.initialized = FALSE]
        i == Initialize(cleaned, fail)
    IN  [rec |-> i.rec,
         calls |-> (IF r.frame_buffer # None
                      THEN <<FreeCall(r.frame_buffer)>> ELSE <<>>)
                   \o (IF r.handle # None
                         THEN <<UnInitCall(r.handle)>> ELSE <<>>)
                   \o <<"sleep">> \o i.calls,
         ok |-> i.ok]

\* self._timeout_count after the reconnect attempt of the timeout path
CountAfterReconnectKeptOnFailure(c, ok) == IF ok THEN 0 ELSE c
CountAfterReconnect(c, ok) == 0

\* self._timeout_count after a frame was captured (the code leaves it alone)
CountAfterFrame(c) == c

PullCalls == <<"CameraGetImageBuffer", "CameraImageProcess",
               "CameraReleaseImageBuffer">>

\* error_code of the CameraException raised for a native error e.error_code
\* that is not a timeout
RaisedCodeGeneric(c) == CAMERA_STATUS_FAILED
RaisedCode(c) == c

\* One pull of the timeout/reconnect policy shared by capture_frames and
\* _get_frame_locked on an initialized object: the new fields of every
\* object (the backoff sleep advances time for all), the calls, the result.
Pull(d, out, fail) ==
    LET r == dev[d] IN
    CASE out = "frame" ->
           [devs |-> [dev EXCEPT ![d].timeout_count = CountAfterFrame(@)],
            calls |-> PullCalls, outcome |-> "frame", reconnect |-> "none",
            code |-> 0]
      [] out # "frame" /\ ErrorCode(out) # CAMERA_STATUS_TIME_OUT ->
           [devs |-> dev, calls |-> <<"CameraGetImageBuffer:raised">>,
            outcome |-> "CameraException", reconnect |-> "none",
            code |-> RaisedCode(ErrorCode(out))]
      [] out # "frame" /\ ErrorCode(out) = CAMERA_STATUS_TIME_OUT ->
           LET c == r.timeout_count + 1
               waited == Elapse(dev, PullTimeoutTicks)
           IN
           IF c >= ConsecutiveTimeoutLimit
             THEN LET a == AttemptReconnect([r EXCEPT !.timeout_count = c],
                                            fail)
                      rec == [a.rec EXCEPT !.timeout_count =
                                CountAfterReconnect(c, a.ok)]
                  IN [devs |-> Elapse([waited EXCEPT ![d] = rec],
                                      ReconnectBackoffTicks),
                      calls |-> <<"CameraGetImageBuffer:timeout">> \o a.calls,
                      outcome |-> "timeout",
                      reconnect |-> IF a.ok THEN "ok" ELSE "failed",
                      code |-> 0]
             ELSE [devs |-> [waited EXCEPT ![d].timeout_count = c],
                   calls |-> <<"CameraGetImageBuffer:timeout">>,
                   outcome |-> "timeout", reconnect |-> "none", code |-> 0]

\* The pull with result `out` runs _initialize (through a reconnect
\* attempt); only then does the failure point of _initialize matter.
PullInputs(d, out, fail) ==
    \/ fail = "none"
    \/ /\ out = "timeout"
       /\ dev[d].timeout_count + 1 >= ConsecutiveTimeoutLimit

\* The timeouts in a row since the last captured frame, after this pull
RunAfter(d, p) ==
    IF p.outcome = "frame" \/ p.reconnect # "none" THEN 0
    ELSE IF p.outcome = "timeout" THEN run[d] + 1
    ELSE run[d]

\* One iteration of the while loop of capture_frames
CaptureFrames(d, out, fail) ==
    /\ UNCHANGED <<gateVars, libVars, capVars>>
    /\ dev[d].initialized
    /\ PullInputs(d, out, fail)
    /\ LET p == Pull(d, out, fail) IN
       /\ dev' = p.devs
       /\ run' = [run EXCEPT ![d] = RunAfter(d, p)]
       /\ lastOp' = [op |-> "capture_frames", d |-> d, outcome |-> p.outcome,
                     reconnect |-> p.reconnect, calls |-> p.calls,
                     warnings |-> 0, seq |-> 1 - lastOp.seq,
                     native |-> ErrorCode(out), code |-> p.code]
    /\ UNCHANGED active_devices

\* One iteration of capture_frames consumed through create_frame_generator:
\* a CameraException whose code is CAMERA_STATUS_TIME_OUT ends the generator,
\* any other is re-raised as it is.
FrameGenerator(d, out, fail) ==
    /\ UNCHANGED <<gateVars, libVars, capVars>>
    /\ dev[d].initialized
    /\ PullInputs(d, out, fail)
    /\ LET p == Pull(d, out, fail)
           raised == p.outcome = "CameraException"
           swallowed == raised /\ p.code = CAMERA_STATUS_TIME_OUT
       IN
       /\ dev' = p.devs
       /\ run' = [run EXCEPT ![d] = RunAfter(d, p)]
       /\ lastOp' = [op |-> "frame_generator", d |-> d,
                     outcome |-> IF swallowed THEN "stopped" ELSE p.outcome,
                     reconnect |-> p.reconnect, calls |-> p.calls,
                     warnings |-> 0, seq |-> 1 - lastOp.seq,
                     native |-> ErrorCode(out),
                     code |-> IF swallowed THEN 0 ELSE p.code]
    /\ UNCHANGED active_devices

\* get_frame on an initialized object: timeouts return None
GetFrame(d, out, fail) ==
    /\ UNCHANGED <<gateVars, libVars, capVars>>
    /\ dev[d].initialized
    /\ PullInputs(d, out, fail)
    /\ LET p == Pull(d, out, fail) IN
       /\ dev' = p.devs
       /\ run' = [run EXCEPT ![d] = RunAfter(d, p)]
       /\ lastOp' = [op |-> "get_frame", d |-> d,
                     outcome |-> IF p.outcome = "timeout" THEN "None"
                                 ELSE p.outcome,
                     reconnect |-> p.reconnect, calls |-> p.calls,
                     warnings |-> 0, seq |-> 1 - lastOp.seq,
                     native |-> ErrorCode(out), code |-> p.code]
    /\ UNCHANGED active_devices

\* get_frame on an object that is not initialized: one reconnect attempt if
\* the last one is at least _min_reconnect_interval old; returns None.
GetFrameNotInitialized(d, fail) ==
    /\ UNCHANGED <<gateVars, libVars, capVars>>
    /\ ~dev[d].initialized
    /\ fail = "none" \/ dev[d].since_reconnect >= MinReconnectTicks
    /\ IF dev[d].since_reconnect >= MinReconnectTicks
         THEN LET a == AttemptReconnect(dev[d], fail)
                  rec == IF a.ok THEN [a.rec EXCEPT !.timeout_count = 0]
                                 ELSE a.rec
              IN /\ dev' = Elapse([dev EXCEPT ![d] = rec],
                                  ReconnectBackoffTicks)
                 /\ run' = [run EXCEPT ![d] = IF a.ok THEN 0 ELSE @]
                 /\ lastOp' = [op |-> "get_frame", d |-> d, outcome |-> "None",
                               reconnect |-> IF a.ok THEN "ok" ELSE "failed",
                               calls |-> a.calls, warnings |-> 0,
                               seq |-> 1 - lastOp.seq,
                               native |-> 0, code |-> 0]
         ELSE /\ lastOp' = [op |-> "get_frame", d |-> d, outcome |-> "None",
                            reconnect |-> "none", calls |-> <<>>,
                            warnings |-> 0, seq |-> 1 - lastOp.seq,
                            native |-> 0, code |-> 0]
              /\ UNCHANGED <<dev, run>>
    /\ UNCHANGED active_devices

\* A tick of wall-clock time passes
Tick ==
    /\ UNCHANGED <<gateVars, libVars, capVars>>
    /\ \E d \in Devices : dev[d].since_reconnect < MinReconnectTicks
    /\ dev' = Elapse(dev, 1)
    /\ UNCHANGED <<active_devices, run, lastOp>>

LifecycleNext ==
    \/ \E d \in Devices, fail \in InitFailures : Enter(d, fail)
    \/ \E d \in Devices, ff \in BOOLEAN, uf \in BOOLEAN : Exit(d, ff, uf)

\* The CameraDevice object that the capture session and the UI poll pull
\* from (CaptureSession.camera)
StreamDevice == 1

DeviceNext ==
    \/ \E fail \in InitFailures : Enter(StreamDevice, fail)
    \/ \E ff \in BOOLEAN, uf \in BOOLEAN : Exit(StreamDevice, ff, uf)
    \/ \E out \in PullOutcomes, fail \in InitFailures :
         CaptureFrames(StreamDevice, out, fail)
    \/ \E out \in PullOutcomes, fail \in InitFailures :
         GetFrame(StreamDevice, out, fail)
    \/ \E out \in PullOutcomes, fail \in InitFailures :
         FrameGenerator(StreamDevice, out, fail)
    \/ \E fail \in InitFailures : GetFrameNotInitialized(StreamDevice, fail)
    \/ Tick

\* ------------------------------------------------------------------
\* CaptureSession, its worker threads and the get_frame callers, all on
\* the CameraDevice object StreamDevice
\* ------------------------------------------------------------------

\* Worker threads that can be alive at once, and get_frame callers
NumWorkers == 2
NumPollers == 1

Workers == 1..NumWorkers
Pollers == 1..NumPollers

\* The failure points of _initialize that the concurrent specifications
\* draw from: none, before the handle exists, after handle and buffer exist
ReinitFailures == {"none", "init", "play"}

\* self._thread.join(timeout=2.0)
JoinTimeoutSeconds == 2
JoinTimeoutTicks == JoinTimeoutSeconds * TicksPerSecond

\* A thread slot with no live _capture_loop thread in it.
\* stale: the handle of the thread's in-flight CameraGetImageBuffer was
\* released by "exit" or by a "reconnect" ("no": it was not).
\* counted: the in-flight pull was issued after stop() set the event.
\* waited: ticks the thread has certainly spent blocked (timed-out pulls,
\* backoff sleep) since stop() set the event, up to JoinTimeoutTicks.
NoWorker == [pc |-> "none", stale |-> "no", counted |-> FALSE, waited |-> 0]

\* A get_frame caller outside the call. path: which branch of
\* _get_frame_locked started its reconnect attempt.
NoPoll == [pc |-> "idle", stale |-> "no", path |-> "none"]

CapVarsInit ==
    /\ stop_event = FALSE
    /\ running = FALSE
    /\ thread = 0
    /\ wk = [w \in Workers |-> NoWorker]
    /\ ctl = "idle"
    /\ poll = [p \in Pollers |-> NoPoll]
    /\ frame_lock = 0
    /\ reconnect_in_progress = FALSE
    /\ lifecycle_camera = FALSE
    /\ stale_calls = {}

\* First part of _attempt_reconnect, up to the backoff sleep: stamp the
\* attempt, free the buffer and un-init the handle if present, mark the
\* object not initialized.
ReconnectRelease(r) ==
    [rec |-> [r EXCEPT !.since_reconnect = 0,
                       !.frame_buffer = None,
                       !.handle = None,
                       !.initialized = FALSE],
     calls |-> (IF r.frame_buffer # None
                  THEN <<FreeCall(r.frame_buffer)>> ELSE <<>>)
               \o (IF r.handle # None
                     THEN <<UnInitCall(r.handle)>> ELSE <<>>)]

\* The worker threads after thread `self` (0: not a worker) released the
\* object's handle h: the pulls in flight in other threads now run on a
\* handle that is no longer initialized.
StaleWorkers(f, self, cause, h) ==
    [w \in Workers |->
       IF w # self /\ h = Live /\ f[w].pc = "pulling" /\ f[w].stale = "no"
         THEN [f[w] EXCEPT !.stale = cause]
         ELSE f[w]]

StalePollers(f, self, cause, h) ==
    [p \in Pollers |->
       IF p # self /\ h = Live /\ f[p].pc = "pulling" /\ f[p].stale = "no"
         THEN [f[p] EXCEPT !.stale = cause]
         ELSE f[p]]

\* Native calls of one pull that ran on something already released: the
\* in-flight CameraGetImageBuffer when its handle was released under it
\* (stale), and, when a frame came back, CameraImageProcess called with the
\* object's current handle and buffer r.handle, r.frame_buffer.
StaleCallsOfPull(stale, out, r) ==
    (IF stale # "no" THEN {<<"CameraGetImageBuffer", stale>>} ELSE {})
    \cup (IF out = "frame"
               /\ (stale # "no" \/ r.handle # Live \/ r.frame_buffer # Live)
            THEN {<<"CameraImageProcess",
                    IF stale # "no" THEN stale ELSE "field">>}
            ELSE {})

\* CameraGetImageBuffer(self._handle, 500) issued on the handle h
StaleCallsOfIssue(h) ==
    IF h # Live THEN {<<"CameraGetImageBuffer", "field">>} ELSE {}

AddWaited(n, k) == IF n + k > JoinTimeoutTicks THEN JoinTimeoutTicks ELSE n + k

\* while not self._stop_event.is_set(): ... if not camera._initialized:
\* sleep(0.1); continue ... for frame in self.camera.capture_frames()
\* After the loop: self._running = False.
LoopHead(w) ==
    /\ wk[w].pc = "loop"
    /\ IF stop_event
         THEN /\ wk' = [wk EXCEPT ![w] = NoWorker]
              /\ running' = FALSE
         ELSE IF ~dev[StreamDevice].initialized
           THEN UNCHANGED <<wk, running>>
           ELSE /\ wk' = [wk EXCEPT ![w].pc = "while"]
                /\ UNCHANGED running
    /\ UNCHANGED <<gateVars, libVars, lifecycle_camera, devVars, stop_event,
                   thread, ctl, poll, frame_lock, reconnect_in_progress,
                   stale_calls>>

\* capture_frames: while self._initialized: CameraGetImageBuffer(handle, 500)
\* (the generator ends when the object is not initialized)
PullCall(w) ==
    /\ wk[w].pc = "while"
    /\ IF ~dev[StreamDevice].initialized
         THEN /\ wk' = [wk EXCEPT ![w].pc = "loop"]
              /\ UNCHANGED stale_calls
         ELSE /\ wk' = [wk EXCEPT ![w].pc = "pulling",
                                  ![w].stale = "no",
                                  ![w].counted = (ctl = "joining")]
              /\ stale_calls' = StaleCallsOfIssue(dev[StreamDevice].handle)
    /\ UNCHANGED <<gateVars, libVars, lifecycle_camera, devVars, stop_event,
                   running, thread, ctl, poll, frame_lock,
                   reconnect_in_progress>>

\* Where _capture_loop goes when capture_frames has yielded a frame:
\* break if the stop event is set or the object is no longer initialized,
\* else recorder.add_frame(frame) and the next iteration of the generator.
AfterFrame(r) == IF stop_event \/ ~r.initialized THEN "loop" ELSE "while"

\* Where _capture_loop goes when capture_frames has raised: into the
\* except clause inside its while loop.
AfterFatalDies == "none"
AfterFatal == "caught"

\* CameraGetImageBuffer returns in the worker: the rest of the iteration
\* of capture_frames and of the loop body of _capture_loop
PullReturn(w, out) ==
    LET r == dev[StreamDevice]
        me == wk[w]
        c == r.timeout_count + 1
        blocked == IF me.counted THEN AddWaited(me.waited, PullTimeoutTicks)
                   ELSE me.waited
    IN
    /\ me.pc = "pulling"
    /\ stale_calls' = StaleCallsOfPull(me.stale, out, r)
    /\ CASE out = "frame" ->
              /\ dev' = [dev EXCEPT ![StreamDevice].timeout_count =
                           CountAfterFrame(@)]
              /\ wk' = [wk EXCEPT ![w].pc = AfterFrame(r),
                                  ![w].stale = "no", ![w].counted = FALSE]
              /\ UNCHANGED poll
         [] out # "frame" /\ ErrorCode(out) # CAMERA_STATUS_TIME_OUT ->
              /\ wk' = [wk EXCEPT ![w].pc = AfterFatal,
                                  ![w].stale = "no", ![w].counted = FALSE]
              /\ UNCHANGED <<dev, poll>>
         [] out # "frame" /\ ErrorCode(out) = CAMERA_STATUS_TIME_OUT ->
              IF c >= ConsecutiveTimeoutLimit
                THEN LET rr == ReconnectRelease([r EXCEPT !.timeout_count = c])
                     IN
                     /\ dev' = [dev EXCEPT ![StreamDevice] = rr.rec]
                     /\ wk' = [StaleWorkers(wk, w, "reconnect", r.handle)
                                 EXCEPT ![w].pc = "backoff",
                                        ![w].stale = "no",
                                        ![w].counted = FALSE,
                                        ![w].waited =
                                           IF ctl = "joining"
                                             THEN AddWaited(blocked,
                                                    ReconnectBackoffTicks)
                                             ELSE blocked]
                     /\ poll' = StalePollers(poll, 0, "reconnect", r.handle)
                ELSE /\ dev' = [dev EXCEPT ![StreamDevice].timeout_count = c]
                     /\ wk' = [wk EXCEPT ![w].pc = "while",
                                         ![w].stale = "no",
                                         ![w].counted = FALSE,
                                         ![w].waited = blocked]
                     /\ UNCHANGED poll
    /\ UNCHANGED <<gateVars, libVars, lifecycle_camera, active_devices, run,
                   lastOp, stop_event, running, thread, ctl, frame_lock,
                   reconnect_in_progress>>

\* except Exception in _capture_loop: log, sleep, next round of the loop
Caught(w) ==
    /\ wk[w].pc = "caught"
    /\ wk' = [wk EXCEPT ![w].pc = "loop"]
    /\ UNCHANGED <<gateVars, libVars, lifecycle_camera, devVars, stop_event,
                   running, thread, ctl, poll, frame_lock,
                   reconnect_in_progress, stale_calls>>

\* The backoff sleep of the worker's _attempt_reconnect is over:
\* _initialize, and _attempt_reconnect returns True or False.
ReconnectInit(w, fail) ==
    LET i == Initialize(dev[StreamDevice], fail) IN
    /\ wk[w].pc = "backoff"
    /\ dev' = [dev EXCEPT ![StreamDevice] = i.rec]
    /\ wk' = [wk EXCEPT ![w].pc = IF i.ok THEN "reconnect_ok"
                                  ELSE "reconnect_failed"]
    /\ UNCHANGED <<gateVars, libVars, lifecycle_camera, active_devices, run,
                   lastOp, stop_event, running, thread, ctl, poll,
                   frame_lock, reconnect_in_progress, stale_calls>>

\* capture_frames after _attempt_reconnect has returned: the counter is
\* reset and the while loop continues.
ReconnectDone(w) ==
    /\ wk[w].pc \in {"reconnect_ok", "reconnect_failed"}
    /\ dev' = [dev EXCEPT ![StreamDevice].timeout_count =
                 CountAfterReconnect(@, wk[w].pc = "reconnect_ok")]
    /\ wk' = [wk EXCEPT ![w].pc = "while"]
    /\ UNCHANGED <<gateVars, libVars, lifecycle_camera, active_devices, run,
                   lastOp, stop_event, running, thread, ctl, poll,
                   frame_lock, reconnect_in_progress, stale_calls>>

\* CaptureSession.start(); the new thread takes the first free slot
Start ==
    /\ ctl # "joining"
    /\ IF running
         THEN UNCHANGED <<stop_event, running, thread, wk, ctl>>
         ELSE \E w \in Workers :
                /\ wk[w].pc = "none"
                /\ \A v \in Workers : v < w => wk[v].pc # "none"
                /\ stop_event' = FALSE
                /\ thread' = w
                /\ running' = TRUE
                /\ wk' = [wk EXCEPT ![w] = [NoWorker EXCEPT !.pc = "loop"]]
                /\ ctl' = "idle"
    /\ UNCHANGED <<gateVars, libVars, lifecycle_camera, devVars, poll,
                   frame_lock, reconnect_in_progress, stale_calls>>

\* CaptureSession.stop() up to the join: self._stop_event.set()
StopRequest ==
    /\ ctl # "joining"
    /\ stop_event' = TRUE
    /\ ctl' = "joining"
    /\ wk' = [w \in Workers |->
                [wk[w] EXCEPT !.waited = 0, !.counted = FALSE]]
    /\ UNCHANGED <<gateVars, libVars, lifecycle_camera, devVars, running,
                   thread, poll, frame_lock, reconnect_in_progress,
                   stale_calls>>

\* The join of stop() times out although the thread is alive: the thread
\* has been blocked for the whole timeout since the event was set.
JoinTimesOut ==
    /\ thread # 0
    /\ wk[thread].pc # "none"
    /\ wk[thread].waited >= JoinTimeoutTicks

\* stop() returns: no thread to join, or the thread has ended, or the join
\* timed out; then self._running = False.
StopReturn ==
    /\ ctl = "joining"
    /\ IF thread = 0 THEN TRUE
       ELSE wk[thread].pc = "none" \/ JoinTimesOut
    /\ running' = FALSE
    /\ ctl' = "stopped"
    /\ wk' = [w \in Workers |->
                [wk[w] EXCEPT !.waited = 0, !.counted = FALSE]]
    /\ UNCHANGED <<gateVars, libVars, lifecycle_camera, devVars, stop_event,
                   thread, poll, frame_lock, reconnect_in_progress,
                   stale_calls>>

\* The session layer opens the device (__enter__)
Open(fail) ==
    LET e == EnterResult(StreamDevice, fail) IN
    /\ ctl # "joining"
    /\ dev' = e.devs
    /\ active_devices' = e.active
    /\ ctl' = IF ctl = "closed" THEN "stopped" ELSE ctl
    /\ UNCHANGED <<gateVars, libVars, lifecycle_camera, run, lastOp,
                   stop_event, running, thread, wk, poll, frame_lock,
                   reconnect_in_progress, stale_calls>>

\* The session layer closes the device (__exit__), whatever the threads
\* that pull from it are doing; "closed": the close came after a stop().
Close(freeFails, unInitFails) ==
    LET x == ExitResult(StreamDevice, freeFails, unInitFails) IN
    /\ ctl # "joining"
    /\ dev' = [x.devs EXCEPT ![StreamDevice].exited =
                 IF \E w \in Workers : wk[w].pc = "backoff"
                   THEN "in_reconnect" ELSE @]
    /\ active_devices' = x.active
    /\ ctl' = IF ctl \in {"stopped", "closed"} THEN "closed" ELSE ctl
    /\ wk' = StaleWorkers(wk, 0, "exit", dev[StreamDevice].handle)
    /\ poll' = StalePollers(poll, 0, "exit", dev[StreamDevice].handle)
    /\ UNCHANGED <<gateVars, libVars, lifecycle_camera, run, lastOp,
                   stop_event, running, thread, frame_lock,
                   reconnect_in_progress, stale_calls>>

\* get_frame is called by the thread p: with self._frame_lock, then
\* _get_frame_locked up to its first blocking call. On an object that is
\* not initialized it returns None at once, unless no reconnect is marked
\* in progress and the minimum interval has passed: then it marks one and
\* runs _attempt_reconnect up to the backoff sleep. On an initialized
\* object it issues CameraGetImageBuffer(self._handle, 500).
GetFrameCall(p) ==
    LET r == dev[StreamDevice] IN
    /\ poll[p].pc = "idle"
    /\ frame_lock = 0
    /\ IF r.initialized
         THEN /\ poll' = [poll EXCEPT ![p] = [pc |-> "pulling",
                                              stale |-> "no",
                                              path |-> "none"]]
              /\ frame_lock' = p
              /\ stale_calls' = StaleCallsOfIssue(r.handle)
              /\ UNCHANGED <<dev, wk, reconnect_in_progress>>
         ELSE IF ~reconnect_in_progress
                 /\ r.since_reconnect >= MinReconnectTicks
           THEN /\ reconnect_in_progress' = TRUE
                /\ dev' = [dev EXCEPT ![StreamDevice] =
                             ReconnectRelease(r).rec]
                /\ wk' = StaleWorkers(wk, 0, "reconnect", r.handle)
                /\ poll' = [StalePollers(poll, p, "reconnect", r.handle)
                              EXCEPT ![p] = [pc |-> "backoff",
                                             stale |-> "no",
                                             path |-> "uninit"]]
                /\ frame_lock' = p
                /\ UNCHANGED stale_calls
           ELSE UNCHANGED <<dev, wk, poll, frame_lock,
                            reconnect_in_progress, stale_calls>>
    /\ UNCHANGED <<gateVars, libVars, lifecycle_camera, active_devices, run,
                   lastOp, stop_event, running, thread, ctl>>

\* CameraGetImageBuffer returns in get_frame: the frame is processed and
\* returned, a non-timeout error is raised, a timeout is counted and at
\* the limit starts _attempt_reconnect; the lock is released on return.
GetFrameReturn(p, out) ==
    LET r == dev[StreamDevice]
        c == r.timeout_count + 1
        reconnects == /\ out # "frame"
                      /\ ErrorCode(out) = CAMERA_STATUS_TIME_OUT
                      /\ c >= ConsecutiveTimeoutLimit
    IN
    /\ poll[p].pc = "pulling"
    /\ stale_calls' = StaleCallsOfPull(poll[p].stale, out, r)
    /\ IF reconnects
         THEN /\ dev' = [dev EXCEPT ![StreamDevice] =
                           ReconnectRelease(
                              [r EXCEPT !.timeout_count = c]).rec]
              /\ wk' = StaleWorkers(wk, 0, "reconnect", r.handle)
              /\ poll' = [StalePollers(poll, p, "reconnect", r.handle)
                            EXCEPT ![p] = [pc |-> "backoff",
                                           stale |-> "no",
                                           path |-> "timeout"]]
              /\ UNCHANGED frame_lock
         ELSE /\ dev' = IF out # "frame"
                           /\ ErrorCode(out) = CAMERA_STATUS_TIME_OUT
                          THEN [dev EXCEPT ![StreamDevice].timeout_count = c]
                          ELSE dev
              /\ poll' = [poll EXCEPT ![p] = NoPoll]
              /\ frame_lock' = 0
              /\ UNCHANGED wk
    /\ UNCHANGED <<gateVars, libVars, lifecycle_camera, active_devices, run,
                   lastOp, stop_event, running, thread, ctl,
                   reconnect_in_progress>>

\* The backoff sleep of get_frame's _attempt_reconnect is over:
\* _initialize; the counter is reset (after a timeout in both cases, on an
\* uninitialized object on success only), the in-progress mark of the
\* uninitialized branch is cleared, None is returned, the lock released.
GetFrameReconnectInit(p, fail) ==
    LET i == Initialize(dev[StreamDevice], fail)
        reset == i.ok \/ poll[p].path = "timeout"
    IN
    /\ poll[p].pc = "backoff"
    /\ dev' = [dev EXCEPT ![StreamDevice] =
                 IF reset THEN [i.rec EXCEPT !.timeout_count = 0]
                 ELSE i.rec]
    /\ reconnect_in_progress' =
          IF poll[p].path = "uninit" THEN FALSE ELSE reconnect_in_progress
    /\ poll' = [poll EXCEPT ![p] = NoPoll]
    /\ frame_lock' = 0
    /\ UNCHANGED <<gateVars, libVars, lifecycle_camera, active_devices, run,
                   lastOp, stop_event, running, thread, wk, ctl,
                   stale_calls>>

\* A tick of wall-clock time passes while the threads run
ClockTick ==
    /\ dev[StreamDevice].since_reconnect < MinReconnectTicks
    /\ dev' = Elapse(dev, 1)
    /\ UNCHANGED <<gateVars, libVars, capVars, active_devices, run, lastOp>>

\* The threads currently inside _attempt_reconnect of the streamed object
\* (between its cleanup and its _initialize)
Reconnecting ==
    {<<"worker", w>> : w \in {v \in Workers : wk[v].pc = "backoff"}}
    \cup {<<"get_frame", p>> : p \in {q \in Pollers : poll[q].pc = "backoff"}}

\* The variables of the gate other than the active session
gateCallVars == <<lock_owner, pc, call, result, granted, called, roundOK,
                  lastRejected>>

\* fail: what the hardware made of the call's initialize_camera()
NoLifeOp == [op |-> "none", id |-> 0, sel |-> FALSE, fail |-> "none",
             result |-> "none", io |-> <<>>, released |-> <<>>, seq |-> 0]

\* if self.camera and selected_camera: self._cleanup_camera()
CleansUpFirst(sel) == lifecycle_camera /\ sel

\* try: self._cleanup_camera(); self.session_manager.end_session(...)
EndReleasesGateFirst(camera, ends) ==
    (IF ends THEN <<"gate">> ELSE <<>>)
    \o (IF camera THEN <<"camera">> ELSE <<>>)
EndReleases(camera, ends) ==
    (IF camera THEN <<"camera">> ELSE <<>>)
    \o (IF ends THEN <<"gate">> ELSE <<>>)

\* SessionLifecycle.on_session_start(session_hash, selected_camera); sel:
\* a selected_camera is given. The held camera is cleaned up first when a
\* camera is selected; then the gate slot is claimed, and the call returns
\* the blocked message if another session holds it; then
\* initialize_camera() constructs a CameraDevice (its fields as __init__
\* leaves them) and enters it, and when that fails the slot is released
\* again. The CameraDevice objects made for the streamed camera are
\* represented by the one record dev[StreamDevice].
OnSessionStart(id, sel, fail) ==
    LET idx == DeviceIndex(StreamDevice)
        cleanup == CleansUpFirst(sel)
        x == ExitResult(StreamDevice, FALSE, FALSE)
        dev1 == IF cleanup THEN x.devs ELSE dev
        active1 == IF cleanup THEN x.active ELSE active_devices
        camera1 == lifecycle_camera /\ ~cleanup
        io1 == IF cleanup THEN <<"exit">> ELSE <<>>
        accepted == IF active_session = None THEN TRUE ELSE IsSameSession(id)
        i == Initialize(NewDevice, fail)
        opened == idx \notin active1 /\ i.ok
    IN
    /\ wk' = IF cleanup
               THEN StaleWorkers(wk, 0, "exit", dev[StreamDevice].handle)
               ELSE wk
    /\ poll' = IF cleanup
                 THEN StalePollers(poll, 0, "exit", dev[StreamDevice].handle)
                 ELSE poll
    /\ IF ~accepted
         THEN /\ dev' = dev1
              /\ active_devices' = active1
              /\ lifecycle_camera' = camera1
              /\ lifeOp' = [op |-> "on_session_start", id |-> id,
                            sel |-> sel, fail |-> "none",
                            result |-> "blocked", io |-> io1,
                            released |-> <<>>, seq |-> 1 - lifeOp.seq]
              /\ UNCHANGED active_session
         ELSE /\ active_session' =
                   IF ~opened THEN None
                   ELSE IF active_session = None THEN Some(SessionInfo(id))
                   ELSE active_session
              /\ lifecycle_camera' = (camera1 \/ opened)
              /\ IF idx \in active1
                   THEN \* CameraAccessDenied; no cleanup came before,
                        \* the index being registered still
                        /\ active_devices' = RegistryAfterDenied(idx)
                        /\ dev' = dev1
                   ELSE /\ dev' = [dev1 EXCEPT ![StreamDevice] = i.rec]
                        /\ active_devices' =
                              IF i.ok THEN active1 \cup {idx}
                                      ELSE active1 \ {idx}
              /\ lifeOp' = [op |-> "on_session_start", id |-> id,
                            sel |-> sel, fail |-> fail,
                            result |-> IF opened THEN "ok" ELSE "error",
                            io |-> io1 \o <<"enter">>,
                            released |-> IF opened THEN <<>> ELSE <<"gate">>,
                            seq |-> 1 - lifeOp.seq]
    /\ UNCHANGED <<gateCallVars, recVars, extVars, vframe, run, lastOp,
                   stop_event, running, thread, ctl, frame_lock,
                   reconnect_in_progress, stale_calls>>

\* SessionLifecycle.on_session_end(session_hash): _cleanup_camera()
\* (camera.__exit__ if a camera is held, its exceptions logged), then
\* end_session(session_hash); returns None
OnSessionEnd(id, freeFails, unInitFails) ==
    LET x == ExitResult(StreamDevice, freeFails, unInitFails)
        ends == EndMatches(id)
    IN
    /\ IF lifecycle_camera
         THEN /\ dev' = x.devs
              /\ active_devices' = x.active
              /\ wk' = StaleWorkers(wk, 0, "exit", dev[StreamDevice].handle)
              /\ poll' = StalePollers(poll, 0, "exit",
                                      dev[StreamDevice].handle)
         ELSE UNCHANGED <<dev, active_devices, wk, poll>>
    /\ lifecycle_camera' = FALSE
    /\ active_session' = IF ends THEN None ELSE active_session
    /\ lifeOp' = [op |-> "on_session_end", id |-> id, sel |-> FALSE,
                  fail |-> "none", result |-> "returned",
                  io |-> IF lifecycle_camera THEN <<"exit">> ELSE <<>>,
                  released |-> EndReleases(lifecycle_camera, ends),
                  seq |-> 1 - lifeOp.seq]
    /\ UNCHANGED <<gateCallVars, recVars, extVars, vframe, run, lastOp,
                   stop_event, running, thread, ctl, frame_lock,
                   reconnect_in_progress, stale_calls>>

\* The steps of the worker thread w
WorkerSteps(w) ==
    \/ LoopHead(w)
    \/ PullCall(w)
    \/ \E out \in PullOutcomes : PullReturn(w, out)
    \/ Caught(w)
    \/ \E fail \in ReinitFailures : ReconnectInit(w, fail)
    \/ ReconnectDone(w)

CaptureNext ==
    \/ \E fail \in ReinitFailures : Open(fail)
    \/ \E ff \in BOOLEAN, uf \in BOOLEAN : Close(ff, uf)
    \/ Start
    \/ StopRequest
    \/ StopReturn
    \/ \E w \in Workers : LoopHead(w)
    \/ \E w \in Workers : PullCall(w)
    \/ \E w \in Workers, out \in PullOutcomes : PullReturn(w, out)
    \/ \E w \in Workers : Caught(w)
    \/ \E w \in Workers, fail \in ReinitFailures : ReconnectInit(w, fail)
    \/ \E w \in Workers : ReconnectDone(w)

\* ------------------------------------------------------------------
\* HighSpeedRecorder (src/camera/highspeed_recorder.py)
\* ------------------------------------------------------------------
\* Every method runs under the recorder's RLock, add_frame is called by one
\* producer (the capture loop). Time is counted in ticks; the rates are
\* scaled so that the capacities are small: with buffer_duration_sec = 1
\* the rates 1, 2, 3 give capacities 1, 2, 3.

\* buffer_duration_sec, as given to the constructor
BufferDuration == 1

\* maxlen of the measurement window
FpsWindowLen == 60

\* time.time() counts from the epoch, which lies before the construction
\* of the recorder (tick 0): the 0.0 of _last_fps_calc on the model's clock
EpochStart == -1

\* Rates given to the constructor and to set_target_fps
InitialFps == 2
FpsValues == {1, 2, 3}

\* Frame layouts: H x W x 3 colour, H x W mono
Layouts == {"color", "mono"}

\* duration_sec of save_slowmo_clip: None or a number of ticks
Durations == {None} \cup {Some(d) : d \in 0..MaxTime}

\* What the video writer does when it is handed the frames
SinkOutcomes == {"ok", "not_opened", "raises"}

\* int(fps * buffer_duration_sec * 1.2)
Capacity(fps) == (fps * BufferDuration * 12) \div 10

\* deque.append on a deque with the given maxlen: at the limit the entry
\* at the left end is discarded
AppendUnbounded(s, e, maxlen) == Append(s, e)
AppendBounded(s, e, maxlen) ==
    IF maxlen = 0 THEN s
    ELSE IF Len(s) >= maxlen THEN Append(Tail(s), e)
    ELSE Append(s, e)

\* deque(s, maxlen=maxlen): the last maxlen items of s
DequeOfOldest(s, maxlen) ==
    IF Len(s) > maxlen THEN SubSeq(s, 1, maxlen) ELSE s
DequeOf(s, maxlen) ==
    IF Len(s) > maxlen THEN SubSeq(s, Len(s) - maxlen + 1, Len(s)) ELSE s

\* [(ts, f) for ts, f in s if ts >= cutoff]
EntriesFromStrict(s, cutoff) == SelectSeq(s, LAMBDA e : e.ts > cutoff)
EntriesFrom(s, cutoff) == SelectSeq(s, LAMBDA e : e.ts >= cutoff)

NoRecOp == [op |-> "none", fps |-> 0, d |-> None, use_rec |-> FALSE,
            at |-> 0, n |-> 0, invoked |-> FALSE, passed |-> <<>>,
            result |-> None]

RecVarsInit ==
    /\ now = 0
    /\ target_fps = InitialFps
    /\ buffer_maxlen = Capacity(InitialFps)
    /\ buffer = <<>>
    /\ latest_frame = None
    /\ is_recording = FALSE
    /\ recording_frames = <<>>
    /\ added = 0
    /\ recOp = NoRecOp

\* The record of an operation
RecOpOf(op) == [NoRecOp EXCEPT !.op = op]

\* add_frame(frame): stamp the frame, keep it as the latest, append it to
\* the buffer, its timestamp to the measurement window, and the frame to
\* the recording list while recording
AddFrame(layout) ==
    LET frame == [id |-> added + 1, layout |-> layout]
        e == [ts |-> now, frame |-> frame]
    IN
    /\ added < MaxAdds
    /\ added' = added + 1
    /\ latest_frame' = Some(frame)
    /\ buffer' = AppendBounded(buffer, e, buffer_maxlen)
    /\ recording_frames' = IF is_recording THEN Append(recording_frames, e)
                           ELSE recording_frames
    /\ recOp' = [RecOpOf("add_frame") EXCEPT
                   !.n = IF Len(buffer) >= buffer_maxlen THEN 1 ELSE 0]
    /\ fps_window' = AppendBounded(fps_window, now, FpsWindowLen)
    /\ UNCHANGED <<now, target_fps, buffer_maxlen, is_recording>>
    /\ UNCHANGED <<last_fps_calc, cached_fps, fpsOp>>
    /\ UNCHANGED <<gateVars, devVars, capVars, vframe, lifeOp, streamVars,
                   vrecVars>>

\* set_target_fps(fps): the buffer is recreated from its entries with the
\* new maxlen
SetTargetFps(fps) ==
    LET new_max == Capacity(fps) IN
    /\ target_fps' = fps
    /\ buffer_maxlen' = new_max
    /\ buffer' = DequeOf(buffer, new_max)
    /\ recOp' = [RecOpOf("set_target_fps") EXCEPT
                   !.fps = fps,
                   !.n = IF Len(buffer) > new_max
                           THEN Len(buffer) - new_max ELSE 0]
    /\ UNCHANGED <<now, latest_frame, is_recording, recording_frames, added>>
    /\ UNCHANGED <<gateVars, devVars, capVars, vframe, lifeOp, extVars>>

\* get_latest_frame(): a copy of _latest_frame, or None
GetLatestFrame ==
    /\ recOp' = [RecOpOf("get_latest_frame") EXCEPT !.result = latest_frame]
    /\ UNCHANGED <<now, target_fps, buffer, buffer_maxlen, latest_frame,
                   is_recording, recording_frames, added>>
    /\ UNCHANGED <<gateVars, devVars, capVars, vframe, lifeOp, extVars>>

\* start_recording()
StartRecording ==
    /\ is_recording' = TRUE
    /\ recording_frames' = <<>>
    /\ recOp' = RecOpOf("start_recording")
    /\ UNCHANGED <<now, target_fps, buffer, buffer_maxlen, latest_frame,
                   added>>
    /\ UNCHANGED <<gateVars, devVars, capVars, vframe, lifeOp, extVars>>

\* stop_recording(): returns the number of recorded frames
StopRecording ==
    /\ is_recording' = FALSE
    /\ recOp' = [RecOpOf("stop_recording") EXCEPT
                   !.n = Len(recording_frames)]
    /\ UNCHANGED <<now, target_fps, buffer, buffer_maxlen, latest_frame,
                   recording_frames, added>>
    /\ UNCHANGED <<gateVars, devVars, capVars, vframe, lifeOp, extVars>>

\* clear_buffer(): empties the buffer, the recording list and the
\* measurement window
ClearBuffer ==
    /\ buffer' = <<>>
    /\ recording_frames' = <<>>
    /\ fps_window' = <<>>
    /\ recOp' = RecOpOf("clear_buffer")
    /\ UNCHANGED <<now, target_fps, buffer_maxlen, latest_frame,
                   is_recording, added>>
    /\ UNCHANGED <<last_fps_calc, cached_fps, fpsOp>>
    /\ UNCHANGED <<gateVars, devVars, capVars, vframe, lifeOp, streamVars,
                   vrecVars>>

\* A frame rate, kept as frames over ticks; 0.0
Fps(frames, time_span) == [num |-> frames, den |-> time_span]
ZeroFps == Fps(0, 1)

\* current_time - self._last_fps_calc < 0.2, in ticks of one second
WithinCacheTime(current_time) == (current_time - last_fps_calc) * 10 < 2

NoFpsOp == [op |-> "none", samples |-> 0, cache_hit |-> FALSE,
            returned |-> ZeroFps]

FpsVarsInit ==
    /\ fps_window = <<>>
    /\ last_fps_calc = EpochStart
    /\ cached_fps = ZeroFps
    /\ fpsOp = NoFpsOp

\* get_actual_fps(): the cached value within 0.2 s of the last
\* calculation; otherwise 0.0 with fewer than two samples, else the
\* frames of the window over its time span, which is cached
GetActualFps ==
    LET current_time == now
        n == Len(fps_window)
        time_span == fps_window[n] - fps_window[1]
        computed == IF time_span > 0 THEN Fps(n - 1, time_span) ELSE ZeroFps
        op == [NoFpsOp EXCEPT !.op = "get_actual_fps", !.samples = n]
    IN
    /\ IF WithinCacheTime(current_time)
         THEN /\ fpsOp' = [op EXCEPT !.cache_hit = TRUE,
                                     !.returned = cached_fps]
              /\ UNCHANGED <<cached_fps, last_fps_calc>>
         ELSE IF n < 2
           THEN /\ fpsOp' = op
                /\ UNCHANGED <<cached_fps, last_fps_calc>>
           ELSE /\ cached_fps' = computed
                /\ last_fps_calc' = current_time
                /\ fpsOp' = [op EXCEPT !.returned = computed]
    /\ recOp' = RecOpOf("get_actual_fps")
    /\ UNCHANGED fps_window
    /\ UNCHANGED <<now, target_fps, buffer, buffer_maxlen, latest_frame,
                   is_recording, recording_frames, added>>
    /\ UNCHANGED <<gateVars, devVars, capVars, vframe, lifeOp, streamVars,
                   vrecVars>>

\* The entries save_slowmo_clip hands to _write_slowmo_video, in a one-item
\* tuple, or None when it returns before: the source (the recording list if
\* asked for and not empty, else the buffer) needs two entries, and so does
\* what is left of it from duration_sec before its last entry on.
SlowmoFrames(d, use_recording_buffer) ==
    LET source == IF use_recording_buffer /\ recording_frames # <<>>
                    THEN recording_frames ELSE buffer
    IN
    IF Len(source) < 2 THEN None
    ELSE LET kept == IF d = None THEN source
                     ELSE EntriesFrom(source, source[Len(source)].ts - d[1])
         IN IF Len(kept) < 2 THEN None ELSE Some(kept)

\* save_slowmo_clip(duration_sec, use_recording_buffer=...): the path when
\* the writer was invoked and succeeded, else None (the writer has an
\* outcome only when it is invoked)
SaveSlowmoClip(d, use_recording_buffer, sink) ==
    LET sel == SlowmoFrames(d, use_recording_buffer) IN
    /\ sel = None => sink = "ok"
    /\ recOp' = [RecOpOf("save_slowmo_clip") EXCEPT
                   !.d = d,
                   !.at = now,
                   !.use_rec = use_recording_buffer,
                   !.invoked = (sel # None),
                   !.passed = IF sel # None THEN sel[1] ELSE <<>>,
                   !.result = IF sel # None /\ sink = "ok"
                                THEN Some("path") ELSE None]
    /\ UNCHANGED <<now, target_fps, buffer, buffer_maxlen, latest_frame,
                   is_recording, recording_frames, added>>
    /\ UNCHANGED <<gateVars, devVars, capVars, vframe, lifeOp, extVars>>

\* A tick of wall-clock time passes
RecorderTick ==
    /\ now < MaxTime
    /\ now' = now + 1
    /\ UNCHANGED <<target_fps, buffer, buffer_maxlen, latest_frame,
                   is_recording, recording_frames, added, recOp>>
    /\ UNCHANGED <<gateVars, devVars, capVars, vframe, lifeOp, extVars>>

RecorderNext ==
    \/ \E layout \in Layouts : AddFrame(layout)
    \/ \E fps \in FpsValues : SetTargetFps(fps)
    \/ GetLatestFrame
    \/ StartRecording
    \/ StopRecording
    \/ ClearBuffer
    \/ \E d \in Durations, u \in BOOLEAN, sink \in SinkOutcomes :
         SaveSlowmoClip(d, u, sink)
    \/ RecorderTick

\* The measurement of the frame rate while frames arrive
FpsNext ==
    \/ \E layout \in Layouts : AddFrame(layout)
    \/ ClearBuffer
    \/ GetActualFps
    \/ RecorderTick

\* ------------------------------------------------------------------
\* VideoRecorder (src/camera/recorder.py) under concurrent writers
\* ------------------------------------------------------------------

\* max_duration_sec of the recorder, in ticks
VrMaxDuration == 1

NoVrCall == [frame |-> 0, current_time |-> 0]

VrVarsInit ==
    /\ vr_buffer = <<>>
    /\ vr_lock = NoThread
    /\ vr_pc = [t \in Threads |-> "idle"]
    /\ vr_call = [t \in Threads |-> NoVrCall]
    /\ vr_done = {}
    /\ vr_added = 0

\* "with self._lock" of the recorder
VrLockFreeNoLock(t) == TRUE
VrLockFree(t) == vr_lock = NoThread

\* while self._buffer and self._buffer[0][0] < cutoff_time: popleft()
RECURSIVE PruneOld(_, _)
PruneOld(s, cutoff_time) ==
    IF s # <<>> /\ Head(s).ts < cutoff_time
      THEN PruneOld(Tail(s), cutoff_time)
      ELSE s

\* A thread calls add_frame(frame); it now waits for the lock.
VrAddFrameCall(t) ==
    /\ vr_pc[t] = "idle"
    /\ vr_added < MaxAdds
    /\ vr_added' = vr_added + 1
    /\ vr_call' = [vr_call EXCEPT ![t] =
                     [frame |-> vr_added + 1, current_time |-> 0]]
    /\ vr_pc' = [vr_pc EXCEPT ![t] = "wait"]
    /\ UNCHANGED <<vr_buffer, vr_lock, vr_done>>
    /\ UNCHANGED <<gateVars, devVars, capVars, recVars, vframe, lifeOp,
                   streamVars, fpsVars>>

\* with self._lock: current_time = time.time()
VrAddFrameAcquire(t) ==
    /\ vr_pc[t] = "wait"
    /\ VrLockFree(t)
    /\ vr_lock' = t
    /\ vr_call' = [vr_call EXCEPT ![t].current_time = now]
    /\ vr_pc' = [vr_pc EXCEPT ![t] = "locked"]
    /\ UNCHANGED <<vr_buffer, vr_done, vr_added>>
    /\ UNCHANGED <<gateVars, devVars, capVars, recVars, vframe, lifeOp,
                   streamVars, fpsVars>>

\* self._buffer.append((current_time, frame.copy())), the pruning of the
\* entries older than current_time - max_duration_sec, and the release of
\* the lock
VrAddFrameBody(t) ==
    LET e == [ts |-> vr_call[t].current_time, frame |-> vr_call[t].frame]
        cutoff_time == vr_call[t].current_time - VrMaxDuration
    IN
    /\ vr_pc[t] = "locked"
    /\ vr_buffer' = PruneOld(Append(vr_buffer, e), cutoff_time)
    /\ vr_lock' = IF vr_lock = t THEN NoThread ELSE vr_lock
    /\ vr_done' = vr_done \cup {e}
    /\ vr_call' = [vr_call EXCEPT ![t] = NoVrCall]
    /\ vr_pc' = [vr_pc EXCEPT ![t] = "idle"]
    /\ UNCHANGED vr_added
    /\ UNCHANGED <<gateVars, devVars, capVars, recVars, vframe, lifeOp,
                   streamVars, fpsVars>>

VideoRecorderNext ==
    \/ \E t \in Threads : VrAddFrameCall(t)
    \/ \E t \in Threads : VrAddFrameAcquire(t)
    \/ \E t \in Threads : VrAddFrameBody(t)
    \/ RecorderTick

\* ------------------------------------------------------------------
\* VideoFrame (src/camera/video_frame.py)
\* ------------------------------------------------------------------
\* A Python float: a number or NaN
Num(n) == [nan |-> FALSE, v |-> n]
NaN == [nan |-> TRUE, v |-> 0]

\* Comparisons of a float with 0: every comparison with NaN is False
LeZero(x) == ~x.nan /\ x.v <= 0
GtZero(x) == ~x.nan /\ x.v > 0

\* Arguments tried: sizes and channel counts around the valid ones, array
\* shapes (H, W) and (H, W, C), two dtypes, timestamps and sequence
\* numbers around 0
Sizes == {0, 1, 2}
ChannelCounts == {1, 2, 3}
Shapes == {<<1, 2>>, <<2, 1>>, <<1, 2, 3>>, <<2, 1, 3>>, <<1, 2, 1>>}
Dtypes == {"uint8", "float32"}
Timestamps == {Num(0), Num(1), NaN}
SequenceNumbers == {-1, 0}

\* No VideoFrame(...) call made yet
NoVideoFrame ==
    [made |-> FALSE, outcome |-> "none",
     args |-> [shape |-> <<>>, dtype |-> "none", width |-> 0, height |-> 0,
               channels |-> 0, timestamp |-> Num(0), sequence_number |-> 0]]

\* VideoFrame.__post_init__: "ok", or the ValueError raised by the first
\* check that fails
PostInit(a) ==
    IF a.channels \notin {1, 3} THEN "Invalid channel count"
    ELSE IF a.width <= 0 \/ a.height <= 0 THEN "Invalid dimensions"
    ELSE IF a.shape # (IF a.channels = 3
                         THEN <<a.height, a.width, a.channels>>
                         ELSE <<a.height, a.width>>)
      THEN "Frame data shape"
    ELSE IF a.dtype # "uint8" THEN "Frame data dtype"
    ELSE IF LeZero(a.timestamp) THEN "Invalid timestamp"
    ELSE IF a.sequence_number < 0 THEN "Invalid sequence"
    ELSE "ok"

\* VideoFrame(data, width, height, channels, timestamp, sequence_number,
\* media_type): the dataclass stores the fields and runs __post_init__
Construct(a) ==
    /\ vframe' = [made |-> TRUE, args |-> a, outcome |-> PostInit(a)]
    /\ UNCHANGED <<gateVars, devVars, capVars, recVars, lifeOp, extVars>>

FrameNext ==
    \E shape \in Shapes, dtype \in Dtypes, width \in Sizes, height \in Sizes,
       channels \in ChannelCounts, timestamp \in Timestamps,
       sequence_number \in SequenceNumbers :
      Construct([shape |-> shape, dtype |-> dtype, width |-> width,
                 height |-> height, channels |-> channels,
                 timestamp |-> timestamp,
                 sequence_number |-> sequence_number])

\* The capture session while the device stays open: the session layer
\* opens, starts and stops, and never closes.
StreamNext ==
    \/ \E fail \in ReinitFailures : Open(fail)
    \/ Start
    \/ StopRequest
    \/ StopReturn
    \/ \E w \in Workers : LoopHead(w)
    \/ \E w \in Workers : PullCall(w)
    \/ \E w \in Workers, out \in PullOutcomes : PullReturn(w, out)
    \/ \E w \in Workers : Caught(w)
    \/ \E w \in Workers, fail \in ReinitFailures : ReconnectInit(w, fail)
    \/ \E w \in Workers : ReconnectDone(w)

\* One capture worker and the UI's get_frame callers on the same device,
\* which the session layer opens and closes; the capture session is
\* started and never stopped.
RaceNext ==
    \/ \E fail \in ReinitFailures : Open(fail)
    \/ \E ff \in BOOLEAN, uf \in BOOLEAN : Close(ff, uf)
    \/ Start
    \/ \E w \in Workers : LoopHead(w)
    \/ \E w \in Workers : PullCall(w)
    \/ \E w \in Workers, out \in PullOutcomes : PullReturn(w, out)
    \/ \E w \in Workers : Caught(w)
    \/ \E w \in Workers, fail \in ReinitFailures : ReconnectInit(w, fail)
    \/ \E w \in Workers : ReconnectDone(w)
    \/ \E p \in Pollers : GetFrameCall(p)
    \/ \E p \in Pollers, out \in PullOutcomes : GetFrameReturn(p, out)
    \/ \E p \in Pollers, fail \in ReinitFailures :
         GetFrameReconnectInit(p, fail)
    \/ ClockTick

\* Viewer sessions coming and going through SessionLifecycle, with a
\* capture session started on the camera
SessionNext ==
    \/ \E id \in SessionIds, sel \in BOOLEAN, fail \in ReinitFailures :
         OnSessionStart(id, sel, fail)
    \/ \E id \in SessionIds, ff \in BOOLEAN, uf \in BOOLEAN :
         OnSessionEnd(id, ff, uf)
    \/ Start
    \/ \E w \in Workers : LoopHead(w)
    \/ \E w \in Workers : PullCall(w)
    \/ \E w \in Workers, out \in PullOutcomes : PullReturn(w, out)
    \/ \E w \in Workers : Caught(w)
    \/ \E w \in Workers, fail \in ReinitFailures : ReconnectInit(w, fail)
    \/ \E w \in Workers : ReconnectDone(w)

\* ------------------------------------------------------------------
\* Specifications
\* ------------------------------------------------------------------

Init ==
    /\ GateVarsInit /\ DevVarsInit /\ CapVarsInit
    /\ RecVarsInit /\ vframe = NoVideoFrame /\ lifeOp = NoLifeOp
    /\ StreamVarsInit /\ VrVarsInit /\ FpsVarsInit

\* The session gate under concurrent callers
GateSpec == Init /\ [][GateNext]_vars

\* The gate and the StreamState singleton that consults it
StreamStateSpec == Init /\ [][StreamStateNext]_vars

\* A HighSpeedRecorder whose frame rate is polled while frames arrive
FpsSpec == Init /\ [][FpsNext]_vars

\* Threads adding frames to one VideoRecorder while time passes
VideoRecorderSpec == Init /\ [][VideoRecorderNext]_vars

\* __enter__ / __exit__ sequences on the CameraDevice objects
LifecycleSpec == Init /\ [][LifecycleNext]_vars

\* Every operation on the CameraDevice object that is streamed from
DeviceSpec == Init /\ [][DeviceNext]_vars

\* A CaptureSession on the streamed object: the session layer opening,
\* starting, stopping and closing, and the worker threads
CaptureSpec == Init /\ [][CaptureNext]_vars

\* The capture session on a device that stays open, with every live
\* worker thread scheduled again and again; the session layer and the
\* device are free in what they do and return.
StreamFairSpec ==
    /\ Init /\ [][StreamNext]_vars
    /\ \A w \in Workers : WF_vars(WorkerSteps(w))

RaceSpec == Init /\ [][RaceNext]_vars

\* A HighSpeedRecorder fed by one producer while the UI resizes, clears,
\* samples and saves
RecorderSpec == Init /\ [][RecorderNext]_vars

\* VideoFrame constructions
FrameSpec == Init /\ [][FrameNext]_vars

\* Viewer sessions with a capture session
SessionSpec == Init /\ [][SessionNext]_vars

\* Viewer sessions with a capture session: the worker threads are
\* scheduled again and again, nothing obliges a viewer to disconnect.
SessionFairSpec ==
    /\ Init /\ [][SessionNext]_vars
    /\ \A w \in Workers : WF_vars(WorkerSteps(w))

\* ------------------------------------------------------------------
\* Properties of the session gate
\* ------------------------------------------------------------------

NoCallInFlight == \A t \in Threads : pc[t] \in {"idle", "done"}

\* C1: the gate holds at most one active session, and in a race of
\* try_start_session calls with pairwise distinct ids on an empty gate at
\* most one call has returned True at any time, exactly one once all calls
\* have returned, and the winner is the active session.
C1_SingleWinner ==
    /\ active_session \in {None} \cup {Some(SessionInfo(i)) : i \in SessionIds}
    /\ roundOK =>
         /\ Cardinality(granted) <= 1
         /\ granted # {} =>
              /\ active_session # None
              /\ active_session[1].session_hash \in granted
         /\ (called # {} /\ NoCallInFlight) => Cardinality(granted) = 1

\* Two racing calls with distinct ids have both returned: one True, one False.
C1_Witness ==
    /\ roundOK
    /\ \E t, u \in Threads :
         /\ t # u
         /\ pc[t] = "done" /\ call[t].op = "try_start_session"
         /\ pc[u] = "done" /\ call[u].op = "try_start_session"
         /\ call[t].id # call[u].id
         /\ result[t] = RetTrue /\ result[u] = RetFalse

\* C2: try_start_session(id) returns True exactly when the gate is empty or
\* the active session has that id, False otherwise (it always returns a
\* boolean); end_session by the active id empties the gate, so that a
\* previously rejected id is then accepted.
C2_TryStartResult ==
    [][\A t \in Threads :
         /\ (pc[t] \in {"check", "set"} /\ pc'[t] = "done") =>
              result'[t] = RetBool(active_session = None
                                   \/ active_session[1].session_hash = call[t].id)
         /\ (pc[t] = "idle" /\ pc'[t] = "done" /\ call'[t].op = "end_session"
             /\ active_session # None
             /\ active_session[1].session_hash = call'[t].id) =>
              active_session' = None
      ]_vars

\* An id that was rejected has now been accepted.
C2_Witness ==
    \E t \in Threads :
        /\ pc[t] = "done" /\ call[t].op = "try_start_session"
        /\ result[t] = RetTrue
        /\ call[t].id = lastRejected

\* C3: end_session(id) with an id that is not the active session changes
\* nothing in the gate and returns normally.
C3_EndSessionMismatch ==
    [][\A t \in Threads :
         (/\ pc[t] = "idle" /\ pc'[t] = "done" /\ call'[t].op = "end_session"
          /\ ~(active_session # None
               /\ active_session[1].session_hash = call'[t].id)) =>
            /\ active_session' = active_session
            /\ lock_owner' = lock_owner
            /\ result'[t] = RetNone
      ]_vars

\* A mismatched end_session has returned while another session is active.
C3_Witness ==
    \E t \in Threads :
        /\ pc[t] = "done" /\ call[t].op = "end_session"
        /\ active_session # None
        /\ active_session[1].session_hash # call[t].id

\* ------------------------------------------------------------------
\* Properties of CameraDevice
\* ------------------------------------------------------------------

SameCamera(d1, d2) == d1 # d2 /\ DeviceIndex(d1) = DeviceIndex(d2)

\* C4: no two CameraDevice objects created for the same device_index are
\* initialized at the same time, whatever sequence of __enter__ and __exit__
\* calls was made on them.
C4_NoDoubleOpen ==
    \A d1, d2 \in Devices :
        SameCamera(d1, d2) => ~(dev[d1].initialized /\ dev[d2].initialized)

\* C5: __enter__ on a registered index raises CameraAccessDenied at once,
\* makes no native call and changes neither the registry nor any object;
\* the owner's __exit__ unregisters the index and a following __enter__
\* whose initialization succeeds opens the camera again.
C5_DeniedEnter ==
    [][\A d \in Devices :
         /\ \A fail \in InitFailures :
              (Enter(d, fail) /\ DeviceIndex(d) \in active_devices) =>
                 /\ lastOp'.outcome = "CameraAccessDenied"
                 /\ lastOp'.calls = <<>>
                 /\ dev' = dev
                 /\ active_devices' = active_devices
         /\ \A ff \in BOOLEAN, uf \in BOOLEAN :
              Exit(d, ff, uf) => DeviceIndex(d) \notin active_devices'
         /\ (Enter(d, "none") /\ DeviceIndex(d) \notin active_devices) =>
              /\ lastOp'.outcome = "ok"
              /\ dev'[d].initialized
              /\ DeviceIndex(d) \in active_devices'
      ]_vars

\* A second object was just denied while the owner is streaming.
C5_Witness ==
    /\ lastOp.op = "enter"
    /\ lastOp.outcome = "CameraAccessDenied"
    /\ \E o \in Devices :
         /\ SameCamera(o, lastOp.d)
         /\ dev[o].initialized
         /\ dev[o].handle = Live
    /\ DeviceIndex(lastOp.d) \in active_devices

\* Every CameraInit / CameraAlignMalloc of the call log is followed by the
\* matching release call.
AcquiredReleased(calls) ==
    /\ \A i \in 1..Len(calls) :
         calls[i] = "CameraInit"
           => \E j \in (i + 1)..Len(calls) : calls[j] = "CameraUnInit"
    /\ \A i \in 1..Len(calls) :
         calls[i] = "CameraAlignMalloc"
           => \E j \in (i + 1)..Len(calls) : calls[j] = "CameraAlignFree"

\* C6: when __enter__ fails after registering the index, the index is out
\* of the registry again, what the attempt acquired has been released, and
\* the object is Closed (not initialized).
C6_FailedEnterClosed ==
    (lastOp.op = "enter" /\ lastOp.outcome = "CameraException") =>
        /\ DeviceIndex(lastOp.d) \notin active_devices
        /\ AcquiredReleased(lastOp.calls)
        /\ ~dev[lastOp.d].initialized

\* C7: no native handle is passed to CameraUnInit twice and no buffer to
\* CameraAlignFree twice, by any operation.
C7_NoDoubleFree ==
    \A i \in 1..Len(lastOp.calls) :
        lastOp.calls[i] \notin {"CameraUnInit:again", "CameraAlignFree:again"}

\* C8: __exit__ returns normally and leaves the object not initialized, with
\* no handle and no buffer and its index unregistered, also when a release
\* call raised; on an object that is already closed it makes no native call
\* and changes no field, and an __exit__ right after an __exit__ of the same
\* object changes nothing at all.
C8_ExitReleases ==
    [][\A d \in Devices, ff \in BOOLEAN, uf \in BOOLEAN :
         Exit(d, ff, uf) =>
            /\ lastOp'.outcome = "ok"
            /\ ~dev'[d].initialized
            /\ dev'[d].handle = None
            /\ dev'[d].frame_buffer = None
            /\ DeviceIndex(d) \notin active_devices'
            /\ (lastOp.op = "exit" /\ lastOp.d = d) =>
                 /\ lastOp'.calls = <<>>
                 /\ dev' = dev
                 /\ active_devices' = active_devices
      ]_vars

\* An __exit__ in which both release calls raised has returned.
C8_Witness ==
    /\ lastOp.op = "exit"
    /\ lastOp.warnings = 2
    /\ lastOp.outcome = "ok"
    /\ dev[lastOp.d].handle = None

PullOps == {"capture_frames", "get_frame", "frame_generator"}

\* The step is a pull (capture_frames iteration or get_frame) on an object
\* that was initialized when it began.
PullStep ==
    /\ lastOp'.seq # lastOp.seq
    /\ lastOp'.op \in PullOps
    /\ dev[lastOp'.d].initialized

\* The pull returned with a timeout (get_frame reports it as None).
TimedOut(o) == o.outcome \in {"timeout", "None"}

\* C9: a reconnect is attempted by the timeout path only when
\* ConsecutiveTimeoutLimit timeouts have occurred in a row since the last
\* captured frame (this timeout included).
C9_FrameResetsCounter ==
    [][(PullStep /\ lastOp'.reconnect # "none") =>
          run[lastOp'.d] + 1 >= ConsecutiveTimeoutLimit
      ]_vars

\* The call log of a timeout that ran the reconnect cycle: the pull, the
\* release of buffer and handle, the backoff sleep, then _initialize.
IsReconnectCycle(calls) ==
    /\ Len(calls) >= 5
    /\ calls[1] = "CameraGetImageBuffer:timeout"
    /\ calls[2] \in {"CameraAlignFree", "CameraAlignFree:again"}
    /\ calls[3] \in {"CameraUnInit", "CameraUnInit:again"}
    /\ calls[4] = "sleep"
    /\ calls[5] \in {"CameraEnumerateDevice", "CameraEnumerateDevice:raised"}

\* C10: on an initialized object a pull attempts a reconnect exactly when it
\* is a timeout that brings _timeout_count to ConsecutiveTimeoutLimit; the
\* attempt releases, sleeps, re-initializes, and leaves the counter at 0
\* whether it succeeded or failed.
C10_ReconnectAtLimit ==
    [][PullStep =>
         LET d == lastOp'.d IN
         /\ (lastOp'.reconnect # "none") <=>
              (TimedOut(lastOp')
               /\ dev[d].timeout_count + 1 = ConsecutiveTimeoutLimit)
         /\ (lastOp'.reconnect # "none") =>
              /\ dev'[d].timeout_count = 0
              /\ IsReconnectCycle(lastOp'.calls)
              /\ (lastOp'.reconnect = "ok") = dev'[d].initialized
      ]_vars

\* A timeout at the limit ran a reconnect cycle that failed.
C10_Witness ==
    /\ lastOp.op \in {"capture_frames", "get_frame"}
    /\ lastOp.reconnect = "failed"
    /\ IsReconnectCycle(lastOp.calls)
    /\ dev[lastOp.d].timeout_count = 0
    /\ ~dev[lastOp.d].initialized

\* The step is a pull or get_frame call that made a reconnect attempt.
AttemptStep ==
    /\ lastOp'.seq # lastOp.seq
    /\ lastOp'.reconnect # "none"

\* Ticks between the previous reconnect attempt of the object and the
\* start of the attempt made in this step (saturated at MinReconnectTicks):
\* the timeout path starts its attempt when the pull has timed out.
AttemptGap ==
    LET r == dev[lastOp'.d] IN
    IF r.initialized
      THEN IF r.since_reconnect + PullTimeoutTicks > MinReconnectTicks
             THEN MinReconnectTicks
             ELSE r.since_reconnect + PullTimeoutTicks
      ELSE r.since_reconnect

\* C11: a reconnect attempt on an object starts at least
\* _min_reconnect_interval after the previous attempt on it, whichever path
\* (timeout counter or not-initialized check) makes it.
C11_ReconnectSpacing ==
    [][AttemptStep => AttemptGap >= MinReconnectTicks]_vars

\* C14: a pull (capture_frames, get_frame, create_frame_generator) whose
\* native call fails with a status other than CAMERA_STATUS_TIME_OUT raises
\* CameraException with that same status as error_code, leaves
\* _timeout_count and the connection alone, and runs no reconnect attempt.
C14_FatalPropagates ==
    [][(PullStep /\ lastOp'.native \notin {CAMERA_STATUS_SUCCESS,
                                          CAMERA_STATUS_TIME_OUT}) =>
         /\ lastOp'.outcome = "CameraException"
         /\ lastOp'.code = lastOp'.native
         /\ lastOp'.reconnect = "none"
         /\ lastOp'.calls = <<"CameraGetImageBuffer:raised">>
         /\ dev' = dev
      ]_vars

\* create_frame_generator re-raised CAMERA_STATUS_NO_DEVICE_FOUND on an
\* object one timeout short of the reconnect limit.
C14_Witness ==
    /\ lastOp.op = "frame_generator"
    /\ lastOp.outcome = "CameraException"
    /\ lastOp.code = CAMERA_STATUS_NO_DEVICE_FOUND
    /\ dev[lastOp.d].timeout_count = ConsecutiveTimeoutLimit - 1

\* ------------------------------------------------------------------
\* Properties of the capture session
\* ------------------------------------------------------------------

\* The _capture_loop threads that are alive
LiveWorkers == {w \in Workers : wk[w].pc # "none"}

\* C15: at most one _capture_loop thread of the CaptureSession is alive,
\* whatever the sequence of start() and stop() calls, stop() returning on
\* its join timeout included.
C15_OneWorker == Cardinality(LiveWorkers) <= 1

C18_WorkerSurvives ==
    [][\A w \in Workers :
         (wk[w].pc # "none" /\ wk'[w].pc = "none") => stop_event
      ]_vars

\* A worker whose pull raised a non-timeout error is alive in the except
\* clause of its loop, with the stop event clear.
C18_Witness ==
    \E w \in Workers :
      /\ wk[w].pc = "caught"
      /\ ~stop_event

\* C17: once stop() has set the event, a live worker thread ends (unless a
\* later start() clears the event again), whatever the device returns.
C17_StopTerminates ==
    \A w \in Workers :
      (stop_event /\ wk[w].pc # "none") ~> (wk[w].pc = "none" \/ ~stop_event)

\* C13: after a reconnect attempt of a worker has failed, the worker makes
\* a further attempt (unless the session is stopped, or the object is
\* initialized again by someone else in the meantime).
C13_RetryAfterFailure ==
    \A w \in Workers :
      (wk[w].pc = "reconnect_failed") ~>
         \/ wk[w].pc = "backoff"
         \/ wk[w].pc = "none"
         \/ stop_event
         \/ dev[StreamDevice].initialized

\* C19: after a non-timeout error was raised inside a capture worker, the
\* gate slot is released and the device handle closed, without the viewer
\* disconnecting.
C19_FatalReleases ==
    \A w \in Workers :
      (wk[w].pc = "caught") ~>
         (active_session = None /\ dev[StreamDevice].handle # Live)

\* C12: two executions of _attempt_reconnect on the same CameraDevice
\* never overlap, whatever the interleaving of the capture worker and the
\* get_frame callers.
C12_OneReconnect == Cardinality(Reconnecting) <= 1

\* C20: no native call of a pull is made on a handle that __exit__ has
\* already un-initialized or with a frame buffer it has already freed.
C20_CloseSafe ==
    \A c \in stale_calls : c[2] # "exit"

\* ------------------------------------------------------------------
\* Properties of the recorder
\* ------------------------------------------------------------------

\* C21: the buffer never holds more than int(target_fps *
\* buffer_duration_sec * 1.2) entries, and an add_frame on a full buffer
\* removes exactly the oldest entry and appends the new one, the others
\* keeping their order.
C21_BufferBounded ==
    /\ [](Len(buffer) <= Capacity(target_fps))
    /\ [][added' = added + 1 /\ Len(buffer) = Capacity(target_fps) =>
            /\ Len(buffer') = Len(buffer)
            /\ \A i \in 1..(Len(buffer) - 1) : buffer'[i] = buffer[i + 1]
            /\ buffer'[Len(buffer')].frame.id = added'
            /\ buffer'[Len(buffer')].ts = now]_vars

\* An add_frame has just evicted an entry from a buffer of several
C21_Witness ==
    /\ recOp.op = "add_frame"
    /\ recOp.n = 1
    /\ Len(buffer) >= 2
    /\ Len(buffer) = Capacity(target_fps)

\* A save_slowmo_clip(duration_sec=d) with a number for d has just run on
\* the buffer
SavedWindow ==
    /\ recOp.op = "save_slowmo_clip"
    /\ ~recOp.use_rec
    /\ recOp.d # None

TimeOrdered(s) == \A i \in 1..(Len(s) - 1) : s[i].ts <= s[i + 1].ts

\* The newest timestamp of a non-empty list of entries
NewestTs(s) == CHOOSE t \in {s[i].ts : i \in 1..Len(s)} :
                 \A i \in 1..Len(s) : s[i].ts <= t

\* Positions of the buffer whose timestamp is within d of the newest
Eligible(d) ==
    {i \in 1..Len(buffer) : buffer[i].ts >= NewestTs(buffer) - d}

\* C22: the frames save_slowmo_clip(duration_sec=d) selects are exactly
\* the buffered entries with timestamp >= newest - d, in non-decreasing
\* timestamp order, and they are a contiguous suffix of the buffer.
C22_WindowIsSuffix ==
    SavedWindow =>
      IF recOp.invoked
        THEN LET k == Len(recOp.passed) IN
             /\ k <= Len(buffer)
             /\ recOp.passed = SubSeq(buffer, Len(buffer) - k + 1, Len(buffer))
             /\ Eligible(recOp.d[1]) = (Len(buffer) - k + 1)..Len(buffer)
             /\ TimeOrdered(recOp.passed)
        ELSE buffer = <<>> \/ Cardinality(Eligible(recOp.d[1])) < 2

\* A window that leaves out the older part of the buffer was selected
C22_Witness ==
    /\ SavedWindow
    /\ recOp.invoked
    /\ Len(recOp.passed) >= 2
    /\ Len(recOp.passed) < Len(buffer)

\* C23: a windowed extraction of duration d never yields frames whose
\* timestamps are older than the time of the request minus d.
C23_NoStaleFrames ==
    SavedWindow /\ recOp.invoked =>
      \A i \in 1..Len(recOp.passed) :
         recOp.passed[i].ts >= recOp.at - recOp.d[1]

\* C24: save_slowmo_clip(duration_sec=d) with d greater than the time span
\* buffered writes no clip and returns None.
C24_OnlyFullClips ==
    SavedWindow /\ buffer # <<>>
      /\ recOp.d[1] > buffer[Len(buffer)].ts - buffer[1].ts =>
        ~recOp.invoked /\ recOp.result = None

\* C25: the frame sequence handed to the video writer has at least two
\* frames, is in non-decreasing timestamp order and has one layout; when
\* the writer is not invoked None is returned.
C25_SinkInput ==
    recOp.op = "save_slowmo_clip" =>
      IF recOp.invoked
        THEN /\ Len(recOp.passed) >= 2
             /\ TimeOrdered(recOp.passed)
             /\ \A i, j \in 1..Len(recOp.passed) :
                  recOp.passed[i].frame.layout = recOp.passed[j].frame.layout
        ELSE recOp.result = None

\* C26: set_target_fps(fps) sets the capacity to int(fps *
\* buffer_duration_sec * 1.2) and leaves in the buffer exactly the
\* min(old length, new capacity) newest previous entries, in their order.
C26_ResizeKeepsNewest ==
    [][recOp'.op = "set_target_fps" /\ recOp' # recOp =>
         LET cap == Capacity(recOp'.fps)
             k == IF Len(buffer) < cap THEN Len(buffer) ELSE cap
         IN /\ buffer_maxlen' = cap
            /\ Len(buffer') = k
            /\ \A i \in 1..k : buffer'[i] = buffer[Len(buffer) - k + i]]_vars

\* A set_target_fps has just shrunk the buffer and kept several entries
C26_Witness ==
    /\ recOp.op = "set_target_fps"
    /\ recOp.n > 0
    /\ Len(buffer) >= 2

\* C27: get_latest_frame returns None when the buffer holds no entry, and
\* otherwise the frame of the buffer's last entry.
C27_LatestIsNewest ==
    recOp.op = "get_latest_frame" =>
      recOp.result = IF buffer = <<>> THEN None
                     ELSE Some(buffer[Len(buffer)].frame)

\* ------------------------------------------------------------------
\* Properties of the session lifecycle
\* ------------------------------------------------------------------

\* The step is a call of SessionLifecycle
LifecycleStep(op) == lifeOp'.seq # lifeOp.seq /\ lifeOp'.op = op

\* C28: on_session_start(id) called while a different session is active
\* returns the blocked error, makes no camera open or close call, and
\* leaves the camera handle and the gate as they were, whatever
\* selected_camera is.
C28_RejectBeforeIO ==
    [][LifecycleStep("on_session_start")
         /\ active_session # None
         /\ active_session[1].session_hash # lifeOp'.id =>
           /\ lifeOp'.result = "blocked"
           /\ lifeOp'.io = <<>>
           /\ dev' = dev
           /\ active_devices' = active_devices
           /\ lifecycle_camera' = lifecycle_camera
           /\ active_session' = active_session]_vars

\* C29: on_session_end(id) by the active session returns normally and
\* leaves no camera held, the device index unregistered and the gate
\* empty, the camera being released before the gate; an on_session_start
\* by any session id that comes next, the hardware permitting, gets the
\* gate and opens the camera.
C29_EndThenStart ==
    /\ [][LifecycleStep("on_session_end")
            /\ active_session # None
            /\ active_session[1].session_hash = lifeOp'.id =>
              /\ lifeOp'.result = "returned"
              /\ ~lifecycle_camera'
              /\ DeviceIndex(StreamDevice) \notin active_devices'
              /\ active_session' = None
              /\ lifeOp'.released \in {<<"gate">>, <<"camera", "gate">>}
              /\ lifecycle_camera =>
                   lifeOp'.released = <<"camera", "gate">>]_vars
    /\ [][LifecycleStep("on_session_start")
            /\ lifeOp.op = "on_session_end"
            /\ lifeOp.released \in {<<"gate">>, <<"camera", "gate">>}
            /\ lifeOp'.fail = "none" =>
              /\ lifeOp'.result = "ok"
              /\ active_session' = Some(SessionInfo(lifeOp'.id))
              /\ lifecycle_camera'
              /\ DeviceIndex(StreamDevice) \in active_devices'
              /\ dev'[StreamDevice].initialized]_vars

\* The active session, holding a camera, has just ended
C29_Witness ==
    /\ lifeOp.op = "on_session_end"
    /\ lifeOp.released = <<"camera", "gate">>
    /\ active_session = None

\* ------------------------------------------------------------------
\* Properties of VideoFrame
\* ------------------------------------------------------------------

\* What the contract asks of the arguments of a frame
ValidFrame(a) ==
    /\ a.channels \in {1, 3}
    /\ a.width > 0
    /\ a.height > 0
    /\ a.channels = 3 => a.shape = <<a.height, a.width, 3>>
    /\ a.channels = 1 => a.shape = <<a.height, a.width>>
    /\ a.dtype = "uint8"
    /\ GtZero(a.timestamp)
    /\ a.sequence_number >= 0

\* C30: VideoFrame construction succeeds if and only if channels is 1 or
\* 3, width and height are positive, the data has the shape of its
\* channel count, its dtype is uint8, timestamp > 0 and sequence_number
\* >= 0; otherwise ValueError is raised.
C30_ValidIffConstructed ==
    vframe.made => (vframe.outcome = "ok" <=> ValidFrame(vframe.args))


\* ------------------------------------------------------------------
\* Properties of StreamState
\* ------------------------------------------------------------------

\* C31: in every reachable state of any interleaving of try_start_session,
\* end_session, start_streaming and stop_streaming, is_streaming() true
\* implies that get_active_session() is not None.
C31_StreamingNeedsSession == is_streaming => active_session # None

\* the id is the session the gate holds
ActiveFor(id) == active_session # None /\ active_session[1].session_hash = id

\* a thread enters start_streaming in this step
StartStreamingStep(t) ==
    pc[t] = "idle" /\ pc'[t] # "idle" /\ call'[t].op = "start_streaming"

VrRetained ==
    {e \in vr_done : \A f \in vr_done : e.ts >= f.ts - VrMaxDuration}

\* C33: for any interleaving of add_frame calls from several threads no
\* frame is lost or duplicated: the buffer holds exactly one entry per
\* call whose timestamp is within max_duration_sec of the newest, in
\* non-decreasing timestamp order.
C33_ConcurrentAddFrame ==
    /\ TimeOrdered(vr_buffer)
    /\ {vr_buffer[i] : i \in 1..Len(vr_buffer)} = VrRetained
    /\ Len(vr_buffer) = Cardinality(VrRetained)

\* Two threads were in add_frame at once and entered the lock in the other
\* order than they called, and a later call pruned an old entry
C33_Witness ==
    /\ Cardinality(vr_done) > Len(vr_buffer)
    /\ Len(vr_buffer) >= 2
    /\ \E e \in vr_done, f \in vr_done : e.frame > f.frame /\ e.ts < f.ts

\* ------------------------------------------------------------------
\* Properties of the frame-rate measurement
\* ------------------------------------------------------------------

\* C34: get_actual_fps returns 0 whenever fewer than 2 samples are
\* retained in the measurement window, including immediately after
\* clear_buffer and however recently a non-zero value was cached.
C34_ZeroBelowTwoSamples ==
    (fpsOp.op = "get_actual_fps" /\ fpsOp.samples < 2)
      => fpsOp.returned.num = 0

\* ------------------------------------------------------------------
\* Properties of the registry and of an explicit close
\* ------------------------------------------------------------------

\* C35: in every reachable state a CameraDevice that is initialized has
\* its device_index in the registry of active devices; in particular
\* get_frame on a handle that was never opened, or was closed, acquires
\* no native resources for an unregistered index.
C35_InitializedIsRegistered ==
    \A d \in Devices :
       dev[d].initialized => DeviceIndex(d) \in active_devices

\* not initialized, native handle and frame buffer None
Closed(d) ==
    /\ ~dev[d].initialized
    /\ dev[d].handle = None
    /\ dev[d].frame_buffer = None

\* C36: once an __exit__ that ran while a capture worker was inside a
\* reconnect cycle has returned, the handle stays Closed until __enter__
\* is called again, whatever the worker does.
C36_CloseIsFinal ==
    dev[StreamDevice].exited = "in_reconnect" => Closed(StreamDevice)

\* ------------------------------------------------------------------
\* Properties of the gate and the camera held by SessionLifecycle
\* ------------------------------------------------------------------

\* C37: on_session_end(id) with an id that is not the active session
\* leaves the gate and the active session's camera unchanged: the camera
\* stays open and lifecycle.camera is not cleared.
C37_ForeignEndIsNoOp ==
    [][ ( /\ LifecycleStep("on_session_end")
          /\ active_session # None
          /\ ~IsSameSession(lifeOp'.id) )
        => /\ UNCHANGED <<active_session, lifecycle_camera, active_devices>>
           /\ dev'[StreamDevice] = dev[StreamDevice] ]_vars

\* on_session_start returning an error for an id leaves the gate not held
\* by that id
ErrorLeavesGateFree ==
    [][ (LifecycleStep("on_session_start") /\ lifeOp'.result # "ok")
        => ~(/\ active_session' # None
             /\ active_session'[1].session_hash = lifeOp'.id) ]_vars

\* C38: after any sequence of on_session_start and on_session_end calls
\* by any session ids, a repeated on_session_start by the holder and
\* camera-initialization failures included, the lifecycle holds no open
\* camera whenever the gate has no active session, and the gate is not
\* left held by id whenever on_session_start returns an error for id.
C38_GateOwnsCamera ==
    /\ [](active_session = None => ~lifecycle_camera)
    /\ ErrorLeavesGateFree

\* ------------------------------------------------------------------
\* Properties of the pulls on one handle
\* ------------------------------------------------------------------

\* The threads inside the native grab / process / release sequence on the
\* streamed object
Pulling ==
    {<<"capture_frames", w>> : w \in {v \in Workers : wk[v].pc = "pulling"}}
    \cup {<<"get_frame", p>> : p \in {q \in Pollers : poll[q].pc = "pulling"}}

\* C39: for every interleaving of get_frame callers and a capture_frames
\* caller on the same CameraDevice, at most one thread at a time is inside
\* the native grab / process-into-the-frame-buffer / release sequence.
C39_PullsSerialized == Cardinality(Pulling) <= 1


====
